---- MODULE Spec2Model ----
(***************************************************************************)
(* Model of the director package of the Beads autonomous coding harness.   *)
(*                                                                         *)
(*  - the timeout kernel (src/src/director/timeout_organisms.py):          *)
(*    run_with_timeout and run_with_timeout_and_cancel, run on the asyncio *)
(*    event loop (cooperative tasks, asyncio.timeout, Task.cancel);        *)
(*  - the merge/conflict molecules (src/src/director/conflict_handler.py). *)
(*                                                                         *)
(* Time is a discrete clock `now`. A timer that is due fires before the    *)
(* clock advances, and a task that has been woken runs before the clock    *)
(* advances; the wrapped work and the cleanup callback end when they       *)
(* choose to.                                                              *)
(***************************************************************************)
EXTENDS Integers, Sequences, FiniteSets, TLC

\* ------------------------------------------------------------------ bounds
MaxTimeout == 2
MaxStartDelay == 1
MaxExternalCancels == 1

\* timeout_atoms.py: CLEANUP_GRACE_PERIOD_SECONDS: float = 5.0
CLEANUP_GRACE_PERIOD_SECONDS == 5

MaxMergeChunks == 2
MaxDiffChunks == 3
MaxDetectCalls == 2
MaxTools == 2
\* Entries in the metrics file at the start, and append calls made on it.
MaxStored == 1
MaxAppends == 2
\* Execution records kept, and the largest window asked for.
MaxExecutions == 3
MaxWindow == 4
\* Issues in a list to sort.
MaxIssues == 3
\* Lines in the output of the planning tool.
MaxLines == 3

MaxTime == MaxStartDelay + MaxTimeout + CLEANUP_GRACE_PERIOD_SECONDS + 1

Calls == {"a", "b"}

\* ------------------------------------------------- the timeout kernel: inputs
\* How the wrapped work ends when it is left alone.
WorkFinish == {"never", "value", "ValueError", "asyncio.TimeoutError", "CancelledError"}
\* What the wrapped work does when a CancelledError is thrown into it.
WorkOnCancel == {"ack", "slowack", "swallow_return", "swallow_raise", "ignore"}
\* The cleanup callback: not supplied, returns, raises an Exception, never
\* finishes but honours cancellation, catches the cancellation and returns,
\* never finishes and ignores cancellation.
CleanupKinds == {"none", "returns", "raises", "slow", "swallow", "hang"}

Inputs ==
    [kind : {"run_with_timeout"}, timeout : 1..MaxTimeout, raise_on_timeout : BOOLEAN,
     cleanup : CleanupKinds, finish : WorkFinish, onCancel : WorkOnCancel]
    \cup
    [kind : {"run_with_timeout_and_cancel"}, timeout : 1..MaxTimeout, raise_on_timeout : {FALSE},
     cleanup : {"none"}, finish : WorkFinish, onCancel : WorkOnCancel]

\* Calls in flight together: work that ends by itself or not at all and
\* honours cancellation, each with its own deadline and cleanup callback.
ParallelInputs ==
    {i \in Inputs : /\ i.finish \in {"never", "value", "ValueError"}
                    /\ i.onCancel = "ack"
                    /\ i.cleanup \in {"none", "returns", "slow"}
                    /\ (i.kind = "run_with_timeout" => ~i.raise_on_timeout)}

AbsentInput ==
    [kind |-> "run_with_timeout", timeout |-> 1, raise_on_timeout |-> FALSE,
     cleanup |-> "none", finish |-> "never", onCancel |-> "ack"]

VARIABLES
    now,            \* time.monotonic(), in whole seconds
    cfg,            \* per call: the arguments and the behaviour of work and cleanup
    pc,             \* per call: "absent", "ready", "work", "cleanup", "done"
    work,           \* per call: state of the awaited coroutine / task
    mustCancel,     \* per call: Task._must_cancel of the task running the call
    cancelling,     \* per call: Task.cancelling() of the task running the call
    tstate,         \* per call: state of asyncio.timeout(timeout_seconds)
    gstate,         \* per call: state of asyncio.timeout(CLEANUP_GRACE_PERIOD_SECONDS)
    gEntry,         \* per call: Timeout._cancelling captured by the grace timeout
    deadline,       \* per call: when the main timeout fires
    graceDeadline,  \* per call: when the grace timeout fires
    cleanupSt,      \* per call: state of the cleanup callback
    cleanupCalls,   \* per call: times cleanup_callback() was invoked
    extCancels,     \* per call: cancel requests made by the caller's context
    extPhase,       \* per call: where the call stood when those requests came
    signals,        \* per call: CancelledErrors thrown into the work
    graceLog,       \* per call: branch taken by the cancellation wait (lines 306-319)
    outcome         \* per call: what the call returned or raised

tvars == <<now, cfg, pc, work, mustCancel, cancelling, tstate, gstate, gEntry, deadline,
           graceDeadline, cleanupSt, cleanupCalls, extCancels, extPhase, signals, graceLog,
           outcome>>

\* ------------------------------------------------- conflict handler: inputs
\* Text is a sequence of characters.
Chars(t) == {t[i] : i \in 1..Len(t)}

RECURSIVE Texts(_, _)
\* The texts made of at most n of the chunks.
Texts(chunks, n) ==
    IF n = 0 THEN {<<>>}
    ELSE LET shorter == Texts(chunks, n - 1)
         IN  shorter \cup {t \o k : t \in shorter, k \in chunks}

\* The least number of chunks text t is made of (at most n).
ChunkCount(chunks, t, n) ==
    CHOOSE k \in 0..n : /\ t \in Texts(chunks, k)
                        /\ \A j \in 0..(k - 1) : t \notin Texts(chunks, j)

\* What `git merge` prints.
MergeChunks ==
    { <<"C", "O", "N", "F", "L", "I", "C", "T">>,
      <<"C", "o", "n">>,
      <<"f", "l", "i", "c", "t">>,
      <<"f", "a", "t", "a", "l">>,
      <<" ">>,
      <<"\n">> }

\* What `git diff --name-only --diff-filter=U` prints.
DiffChunks == { <<"a">>, <<"b">>, <<" ">>, <<"\n">> }

MergeTexts == Texts(MergeChunks, MaxMergeChunks)
DiffTexts == Texts(DiffChunks, MaxDiffChunks)

\* str(e) of a subprocess.SubprocessError
SubprocessErrorText == <<"f", "a", "i", "l", "e", "d">>

\* The ways subprocess.run(cmd, capture_output=True, text=True) ends: a
\* CompletedProcess, a subprocess.SubprocessError, or the FileNotFoundError
\* (an OSError) of an executable that is not installed.
MergeOutputs ==
    {p \in MergeTexts \X MergeTexts :
        ChunkCount(MergeChunks, p[1], MaxMergeChunks)
        + ChunkCount(MergeChunks, p[2], MaxMergeChunks) <= MaxMergeChunks}

MergeRuns ==
    {[ended |-> "completed", returncode |-> rc, stdout |-> p[1], stderr |-> p[2]] :
        rc \in {0, 1, 128}, p \in MergeOutputs}
    \cup
    {[ended |-> x, returncode |-> 0, stdout |-> <<>>, stderr |-> <<>>] :
        x \in {"SubprocessError", "FileNotFoundError"}}

DiffRuns ==
    {[ended |-> "completed", returncode |-> rc, stdout |-> o, stderr |-> <<>>] :
        rc \in {0, 1}, o \in DiffTexts}
    \cup
    {[ended |-> x, returncode |-> 0, stdout |-> <<>>, stderr |-> <<>>] :
        x \in {"SubprocessError", "FileNotFoundError"}}

NotRun == [ended |-> "not_run", returncode |-> 0, stdout |-> <<>>, stderr |-> <<>>]

VARIABLES
    mergeRun,       \* how the `git merge` subprocess ends
    diffRun,        \* how the `git diff` subprocess ended, once it was run
    mpc,            \* "absent", "ready", "done": the attempt_automatic_merge call
    mergeResult,    \* what attempt_automatic_merge returned or raised
    detectRun,      \* how the `git diff` of the last detect_merge_conflicts call ended
    detectCalls,    \* calls of detect_merge_conflicts made by the caller so far
    detectResult    \* what the last detect_merge_conflicts call returned or raised

hvars == <<mergeRun, diffRun, mpc, mergeResult, detectRun, detectCalls, detectResult>>

\* ------------------------------------------------- working directory guard: state
\* Directories of the file system, and the paths a caller may name them by:
\* "/l" is a symbolic link to "/p", "." is the current directory.
GuardDirs == {"/p", "/q"}
GuardPaths == GuardDirs \cup {"/l", "."}
Guards == {"g1", "g2"}

VARIABLES
    cwd,            \* os.getcwd() of the process
    gExpected,      \* per guard object: _expected_cwd ("unset": not constructed)
    gOriginal,      \* per guard object: _original_cwd ("None" until entered)
    scopes,         \* the `with` scopes entered and not yet left, innermost last
    raising,        \* the exception that is propagating ("none": none)
    lastOp          \* the last guard operation and what it found and did

gvars == <<cwd, gExpected, gOriginal, scopes, raising, lastOp>>

\* ------------------------------------------------- sub-agent client factory: state
\* spawn_molecules.py: DEFAULT_AGENT
DEFAULT_AGENT == "implementer"
AgentNames == {"atom-writer", DEFAULT_AGENT}

\* Where agent definitions are kept: under the project directory
\* (project_dir/.claude/agents/agent-os/<name>.md) and under the master
\* directory (master_dir/profiles/default/agents/<name>.md).
AgentPath(root, name) == [root |-> root, name |-> name]
AgentPaths == {AgentPath(root, name) : root \in {"project", "master"}, name \in AgentNames}

\* client_factory.py: DEFAULT_TOOLS, FILE_SCOPED_TOOLS, PUPPETEER_TOOLS
DEFAULT_TOOLS == <<"Read", "Write", "Edit", "Glob", "Grep", "Bash">>

\* Mutant: a search tool is not treated as file-scoped.
FILE_SCOPED_TOOLS_NoGrep == {"Read", "Write", "Edit", "Glob"}

FILE_SCOPED_TOOLS == {"Read", "Write", "Edit", "Glob", "Grep"}

PUPPETEER_TOOLS ==
    << "mcp__puppeteer__puppeteer_navigate",
       "mcp__puppeteer__puppeteer_screenshot",
       "mcp__puppeteer__puppeteer_click",
       "mcp__puppeteer__puppeteer_fill",
       "mcp__puppeteer__puppeteer_select",
       "mcp__puppeteer__puppeteer_hover",
       "mcp__puppeteer__puppeteer_evaluate" >>

\* The items between the commas of a definition's `tools:` line, trimmed: a
\* file-scoped tool, another file-scoped tool, the shell, a name the factory
\* does not know, and nothing at all.
ToolItems == {"Read", "Grep", "Bash", "WebFetch", ""}

RECURSIVE SeqsUpTo(_, _)
\* The sequences of at most n members of S.
SeqsUpTo(S, n) ==
    IF n = 0 THEN {<<>>}
    ELSE LET shorter == SeqsUpTo(S, n - 1)
         IN  shorter \cup {Append(q, x) : q \in shorter, x \in S}

\* The frontmatter of an agent definition: the `tools` key is absent or holds
\* a comma-separated line, the `model` key is absent or names a model.
Frontmatters ==
    [has_tools : {FALSE}, tools : {<<>>}, model : {"absent", "opus"}]
    \cup
    [has_tools : {TRUE}, tools : SeqsUpTo(ToolItems, MaxTools), model : {"absent", "opus"}]

VARIABLES
    agentFiles,     \* the agent definition files that exist
    definition,     \* the frontmatter the definition files hold
    credential,     \* whether CLAUDE_CODE_OAUTH_TOKEN is set in the environment
    diskWritable,   \* whether the settings file can be written
    settingsFile,   \* contents of project_dir/.claude_subagent_settings.json
    spawn           \* the create_subagent_client call: arguments, locals, outcome

fvars == <<agentFiles, definition, credential, diskWritable, settingsFile, spawn>>

\* ------------------------------------------------- metrics log: data
\* The arguments record_execution is called with.
IssueIds == {"bd-1", "bd-2"}
AgentTypes == {"atom-writer"}
Statuses == {"success", "failure"}
StartTicks == {0}
EndTicks == {0, 1}

\* datetime.isoformat() of a time given in seconds after the minute.
IsoFormat(t) == "2026-01-01T00:00:0" \o ToString(t)

\* MetricsData(...) as record_execution builds it.
NewExecutionRecord(issue_id, agent_type, start_time, end_time, status) ==
    [start_time |-> IsoFormat(start_time),
     end_time   |-> IsoFormat(end_time),
     duration   |-> end_time - start_time,
     status     |-> status,
     agent_type |-> agent_type,
     issue_id   |-> issue_id]

MetricsData ==
    { NewExecutionRecord(i, a, s, e, st) :
        i \in IssueIds, a \in AgentTypes, s \in StartTicks, e \in EndTicks,
        st \in Statuses }

\* A MetricsData whose issue_id is an object json.dump cannot encode.
UnserializableMetrics ==
    [start_time |-> IsoFormat(0), end_time |-> IsoFormat(0), duration |-> 0,
     status |-> "success", agent_type |-> "atom-writer", issue_id |-> "<object>"]

Serializable(metrics) == metrics.issue_id # "<object>"

BlankRecord ==
    [start_time |-> "", end_time |-> "", duration |-> 0,
     status |-> "", agent_type |-> "", issue_id |-> ""]

\* The elements a JSON list in the file can hold: a dict with the six keys,
\* a dict that lacks a key, a value that is not a dict.
DictEntry(metrics) == [tag |-> "dict", fields |-> metrics]
MissingKeyEntry == [tag |-> "dict_missing_key", fields |-> BlankRecord]
NotDictEntry == [tag |-> "not_dict", fields |-> BlankRecord]
Entries == { DictEntry(m) : m \in MetricsData } \cup {MissingKeyEntry, NotDictEntry}

\* What can be at the path of the metrics file.
NoFile == [kind |-> "missing", entries |-> <<>>]
NotJsonFile == [kind |-> "not_json", entries |-> <<>>]
NotListFile == [kind |-> "not_list", entries |-> <<>>]
NotUtf8File == [kind |-> "not_utf8", entries |-> <<>>]
DirectoryAtPath == [kind |-> "directory", entries |-> <<>>]
ListFile(entries) == [kind |-> "list", entries |-> entries]

InitialFiles ==
    {NoFile, NotJsonFile, NotListFile, NotUtf8File, DirectoryAtPath}
    \cup { ListFile(es) : es \in SeqsUpTo(Entries, MaxStored) }

\* What the file system does to the write of save_metrics.
SaveEnvs == {"ok", "OSError_open", "OSError_write"}

VARIABLES
    metricsFile,    \* what is at the path of the metrics file
    metricsCall,    \* the last call of load_metrics / append_metrics / record_execution
    appended,       \* the records of the appends that returned True, in call order
    allSucceeded,   \* every append so far returned True
    initialLog,     \* the log as it loaded before the first call
    appendCalls     \* number of append calls made

lvars == <<metricsFile, metricsCall, appended, allSucceeded, initialLog, appendCalls>>

VARIABLES
    executions,     \* the execution records kept for the success rate
    rateCall        \* the last call of calculate_success_rate

rvars == <<executions, rateCall>>

VARIABLES
    parallel,       \* the parallel count the atoms' rule is applied to
    load,           \* the load the tracker's rule is applied to
    firstLoad,      \* the load before the tracker's rule was first applied
    scaleCall       \* the last call of either recommend_parallelism

svars == <<parallel, load, firstLoad, scaleCall>>

VARIABLES
    issues,         \* the list handed to sort_by_priority
    sortCall        \* the last call of sort_by_priority

ovars == <<issues, sortCall>>

VARIABLES
    bvEnv,          \* what shutil.which and the `bv robot --plan` process do
    bvPlan,         \* the last call of query_bv_robot_plan and its BVRobotPlan
    parseCall       \* the last direct call of parse_bv_plan_output

bvars == <<bvEnv, bvPlan, parseCall>>

\* Two append_metrics calls running at the same time on one file.
Writers == {"w1", "w2"}

VARIABLES
    sharedFile,     \* what is at the path both calls were given
    sharedStart,    \* the file before either call started
    writers,        \* each call: where it is, what it loaded, what it returned
    saveOrder       \* the calls that reached save_metrics, in that order

wvars == <<sharedFile, sharedStart, writers, saveOrder>>

\* Several create_subagent_client calls, into the same or different projects.
SpawnCalls == {"s1", "s2"}
ProjectDirs == {"/p", "/q"}
SpawnToolLists == {<<"Read", "Grep">>, <<"Read", "Write", "Bash">>, DEFAULT_TOOLS}

VARIABLES
    projectSettings,    \* the settings file of each project directory
    clients             \* each call: where it is, its arguments, its client

cvars == <<projectSettings, clients>>

\* Everything outside the timeout kernel.
mvars == <<hvars, gvars, fvars, lvars, rvars, svars, ovars, bvars, wvars, cvars>>

\* Everything outside one of the other parts of the harness.
exceptMerge == <<tvars, gvars, fvars, lvars, rvars, svars, ovars, bvars, wvars, cvars>>
exceptGuard == <<tvars, hvars, fvars, lvars, rvars, svars, ovars, bvars, wvars, cvars>>
exceptSpawn == <<tvars, hvars, gvars, lvars, rvars, svars, ovars, bvars, wvars, cvars>>
exceptMetrics == <<tvars, hvars, gvars, fvars, rvars, svars, ovars, bvars, wvars, cvars>>
exceptRate == <<tvars, hvars, gvars, fvars, lvars, svars, ovars, bvars, wvars, cvars>>
exceptScaling == <<tvars, hvars, gvars, fvars, lvars, rvars, ovars, bvars, wvars, cvars>>
exceptSort == <<tvars, hvars, gvars, fvars, lvars, rvars, svars, bvars, wvars, cvars>>
exceptPlan == <<tvars, hvars, gvars, fvars, lvars, rvars, svars, ovars, wvars, cvars>>
exceptOverlap == <<tvars, hvars, gvars, fvars, lvars, rvars, svars, ovars, bvars, cvars>>
exceptClients == <<tvars, hvars, gvars, fvars, lvars, rvars, svars, ovars, bvars, wvars>>

vars == <<tvars, mvars>>

\* ------------------------------------------------- TimeoutResult / raised errors
NoOutcome ==
    [how |-> "pending", success |-> FALSE, timed_out |-> FALSE, error |-> "none", result |-> "none"]

\* TimeoutResult(success, result, timed_out, error, elapsed_seconds)
TimeoutResult(success, result, timed_out, error) ==
    [how |-> "return_result", success |-> success, timed_out |-> timed_out,
     error |-> error, result |-> result]

\* `return result` of run_with_timeout with raise_on_timeout=True
ReturnValue(v) ==
    [how |-> "return_value", success |-> TRUE, timed_out |-> FALSE, error |-> "none", result |-> v]

Raise(e) ==
    [how |-> "raise", success |-> FALSE, timed_out |-> FALSE, error |-> e, result |-> "none"]

\* ------------------------------------------------- asyncio.timeout
\* Timeout.__aexit__: an expiring timeout turns the CancelledError it caused
\* into asyncio.TimeoutError unless a further cancel request is pending.
AExit(state, count, entry, exc) ==
    IF state = "expiring"
    THEN [state |-> "expired",
          count |-> count - 1,
          exc   |-> IF count - 1 <= entry /\ exc = "CancelledError"
                    THEN "asyncio.TimeoutError" ELSE exc]
    ELSE [state |-> "exited", count |-> count, exc |-> exc]

\* The work's reaction to a CancelledError thrown into it.
WorkAfterCancel(c) ==
    IF work[c] # "running" THEN work[c]
    ELSE CASE cfg[c].onCancel = "ack"            -> "cancelled"
           [] cfg[c].onCancel = "slowack"        -> "unwinding"
           [] cfg[c].onCancel = "swallow_return" -> "returned"
           [] cfg[c].onCancel = "swallow_raise"  -> "raised"
           [] OTHER                              -> "running"

\* The cleanup callback's reaction to a CancelledError thrown into it.
CleanupAfterCancel(c) ==
    CASE cfg[c].cleanup = "hang"    -> "running"
      [] cfg[c].cleanup = "swallow" -> "returned"
      [] OTHER                      -> "cancelled"

WorkEnded(c) == work[c] \in {"returned", "raised", "raisedTimeout", "cancelled"}
CleanupEnded(c) == cleanupSt[c] \in {"returned", "raised", "cancelled"}

\* Mutant: the cancel request of one call's timer reaches every call that
\* is awaiting its work (one timer and one task shared by all calls).
CancelWhileAwaitingWork_Shared(c) ==
    /\ cancelling' = [d \in Calls |-> IF pc[d] = "work" THEN cancelling[d] + 1
                                      ELSE cancelling[d]]
    /\ work' = [d \in Calls |-> IF pc[d] = "work" THEN WorkAfterCancel(d) ELSE work[d]]
    /\ signals' = [d \in Calls |-> IF pc[d] = "work" /\ ~WorkEnded(d) THEN signals[d] + 1
                                   ELSE signals[d]]
    /\ mustCancel' = [d \in Calls |-> IF pc[d] = "work" /\ WorkEnded(d) THEN TRUE
                                      ELSE mustCancel[d]]
    /\ UNCHANGED cleanupSt

\* Task.cancel() on the task running call c while it awaits the work: the
\* request is passed on to the awaited coroutine or task; if that has already
\* ended, the CancelledError is thrown at the await instead.
CancelWhileAwaitingWork(c) ==
    /\ cancelling' = [cancelling EXCEPT ![c] = @ + 1]
    /\ IF WorkEnded(c)
       THEN /\ mustCancel' = [mustCancel EXCEPT ![c] = TRUE]
            /\ UNCHANGED <<work, signals>>
       ELSE /\ work' = [work EXCEPT ![c] = WorkAfterCancel(c)]
            /\ signals' = [signals EXCEPT ![c] = @ + 1]
            /\ UNCHANGED mustCancel
    /\ UNCHANGED cleanupSt

CancelWhileAwaitingCleanup(c) ==
    /\ cancelling' = [cancelling EXCEPT ![c] = @ + 1]
    /\ cleanupSt' = [cleanupSt EXCEPT ![c] = CleanupAfterCancel(c)]
    /\ UNCHANGED <<work, signals, mustCancel>>

\* A coroutine awaited inline ends in the same step of the task as the code
\* after the await: no cancel request comes in between. A Task that has
\* ended wakes its waiter through the loop, and a request can come first.
AwaitedInline(c) == cfg[c].kind = "run_with_timeout"

TimerDue(c) ==
    /\ pc[c] = "work"
    /\ tstate[c] = "entered"
    /\ now >= deadline[c]
    /\ ~(AwaitedInline(c) /\ WorkEnded(c))

GraceDue(c) ==
    /\ pc[c] = "cleanup"
    /\ gstate[c] = "entered"
    /\ now >= graceDeadline[c]
    /\ ~CleanupEnded(c)

Runnable(c) ==
    \/ pc[c] = "work" /\ WorkEnded(c)
    \/ pc[c] = "cleanup" /\ CleanupEnded(c)

\* ------------------------------------------------- actions
\* run_with_timeout / run_with_timeout_and_cancel up to the first await:
\* the timeout is entered and the work is awaited.
Start(c) ==
    /\ pc[c] = "ready"
    /\ now <= MaxStartDelay
    /\ pc' = [pc EXCEPT ![c] = "work"]
    /\ tstate' = [tstate EXCEPT ![c] = "entered"]
    /\ deadline' = [deadline EXCEPT ![c] = now + cfg[c].timeout]
    /\ work' = [work EXCEPT ![c] = "running"]
    /\ UNCHANGED <<now, cfg, mustCancel, cancelling, gstate, gEntry, graceDeadline,
                   cleanupSt, cleanupCalls, extCancels, extPhase, signals, graceLog, outcome>>
    /\ UNCHANGED mvars

\* The wrapped work ends by itself.
WorkFinishes(c) ==
    /\ pc[c] = "work"
    /\ work[c] = "running"
    /\ cfg[c].finish # "never"
    /\ work' = [work EXCEPT ![c] =
                  CASE cfg[c].finish = "value"                -> "returned"
                    [] cfg[c].finish = "ValueError"           -> "raised"
                    [] cfg[c].finish = "asyncio.TimeoutError" -> "raisedTimeout"
                    [] OTHER                                  -> "cancelled"]
    /\ UNCHANGED <<now, cfg, pc, mustCancel, cancelling, tstate, gstate, gEntry, deadline,
                   graceDeadline, cleanupSt, cleanupCalls, extCancels, extPhase, signals, graceLog,
                   outcome>>
    /\ UNCHANGED mvars

\* Work that handles its cancellation slowly lets the CancelledError out.
WorkUnwinds(c) ==
    /\ pc[c] = "work"
    /\ work[c] = "unwinding"
    /\ work' = [work EXCEPT ![c] = "cancelled"]
    /\ UNCHANGED <<now, cfg, pc, mustCancel, cancelling, tstate, gstate, gEntry, deadline,
                   graceDeadline, cleanupSt, cleanupCalls, extCancels, extPhase, signals, graceLog,
                   outcome>>
    /\ UNCHANGED mvars

\* Timeout._on_timeout of asyncio.timeout(timeout_seconds).
DeadlineExpires(c) ==
    /\ TimerDue(c)
    /\ tstate' = [tstate EXCEPT ![c] = "expiring"]
    /\ CancelWhileAwaitingWork(c)
    /\ UNCHANGED <<now, cfg, pc, gstate, gEntry, deadline, graceDeadline, cleanupCalls,
                   extCancels, extPhase, graceLog, outcome>>
    /\ UNCHANGED mvars

\* Timeout._on_timeout of asyncio.timeout(CLEANUP_GRACE_PERIOD_SECONDS).
GraceExpires(c) ==
    /\ GraceDue(c)
    /\ gstate' = [gstate EXCEPT ![c] = "expiring"]
    /\ CancelWhileAwaitingCleanup(c)
    /\ UNCHANGED <<now, cfg, pc, tstate, gEntry, deadline, graceDeadline, cleanupCalls,
                   extCancels, extPhase, graceLog, outcome>>
    /\ UNCHANGED mvars

\* Where call c stands: awaiting the work before or after its deadline fired,
\* or awaiting the cleanup callback.
Phase(c) ==
    CASE pc[c] = "work" /\ tstate[c] = "entered" -> "before_deadline"
      [] pc[c] = "work"                          -> "after_deadline"
      [] OTHER                                   -> "cleanup"

\* The caller's context cancels the task that is running the call.
ExternalCancel(c) ==
    /\ extCancels[c] < MaxExternalCancels
    /\ extCancels' = [extCancels EXCEPT ![c] = @ + 1]
    /\ extPhase' = [extPhase EXCEPT ![c] = @ \cup {Phase(c)}]
    /\ \/ /\ pc[c] = "work"
          /\ ~(AwaitedInline(c) /\ WorkEnded(c))
          /\ CancelWhileAwaitingWork(c)
       \/ /\ pc[c] = "cleanup"
          /\ ~CleanupEnded(c)
          /\ CancelWhileAwaitingCleanup(c)
    /\ UNCHANGED <<now, cfg, pc, tstate, gstate, gEntry, deadline, graceDeadline,
                   cleanupCalls, graceLog, outcome>>
    /\ UNCHANGED mvars

\* The cleanup callback ends by itself.
CleanupFinishes(c) ==
    /\ pc[c] = "cleanup"
    /\ cleanupSt[c] = "running"
    /\ cfg[c].cleanup \in {"returns", "raises"}
    /\ cleanupSt' = [cleanupSt EXCEPT ![c] =
                       IF cfg[c].cleanup = "returns" THEN "returned" ELSE "raised"]
    /\ UNCHANGED <<now, cfg, pc, work, mustCancel, cancelling, tstate, gstate, gEntry,
                   deadline, graceDeadline, cleanupCalls, extCancels, extPhase, signals, graceLog,
                   outcome>>
    /\ UNCHANGED mvars

\* What `await coro` / `await task` raises into the call ("none": a value).
AwaitWorkRaises(c) ==
    IF mustCancel[c] THEN "CancelledError"
    ELSE CASE work[c] = "returned"      -> "none"
           [] work[c] = "raised"        -> "ValueError"
           [] work[c] = "raisedTimeout" -> "asyncio.TimeoutError"
           [] OTHER                     -> "CancelledError"

\* What `await cleanup_callback()` raises into the call.
AwaitCleanupRaises(c) ==
    CASE cleanupSt[c] = "raised"    -> "CleanupError"
      [] cleanupSt[c] = "cancelled" -> "CancelledError"
      [] OTHER                      -> "none"

\* run_with_timeout, lines 201-212: the timeout is reported.
ReportTimeout(c) ==
    IF cfg[c].raise_on_timeout
    THEN Raise("KernelTimeoutError")
    ELSE TimeoutResult(FALSE, "none", TRUE, "KernelTimeoutError")

\* Mutant: the CancelledError is recorded in a TimeoutResult, not re-raised.
FailureOutcome_CancelReturned(c, exc) ==
    IF cfg[c].raise_on_timeout THEN Raise(exc)
    ELSE TimeoutResult(FALSE, "none", FALSE, exc)

\* run_with_timeout, lines 214-237: a CancelledError is re-raised; any other
\* exception of the work is re-raised or returned in a TimeoutResult.
FailureOutcome(c, exc) ==
    IF exc = "CancelledError" THEN Raise("CancelledError")
    ELSE IF cfg[c].raise_on_timeout THEN Raise(exc)
    ELSE TimeoutResult(FALSE, "none", FALSE, exc)

\* run_with_timeout, lines 158-237, from the wake-up after `await coro` to the
\* return, the raise, or the await of the cleanup callback.
ResumeRunWithTimeout(c) ==
    LET x == AExit(tstate[c], cancelling[c], 0, AwaitWorkRaises(c)) IN
    /\ pc[c] = "work"
    /\ cfg[c].kind = "run_with_timeout"
    /\ WorkEnded(c)
    /\ tstate' = [tstate EXCEPT ![c] = x.state]
    /\ cancelling' = [cancelling EXCEPT ![c] = x.count]
    /\ mustCancel' = [mustCancel EXCEPT ![c] = FALSE]
    /\ CASE x.exc = "none" ->
              /\ outcome' = [outcome EXCEPT ![c] =
                    IF cfg[c].raise_on_timeout THEN ReturnValue("v")
                    ELSE TimeoutResult(TRUE, "v", FALSE, "none")]
              /\ pc' = [pc EXCEPT ![c] = "done"]
              /\ UNCHANGED <<gstate, gEntry, graceDeadline, cleanupSt, cleanupCalls>>
         [] x.exc = "asyncio.TimeoutError" ->
              IF cfg[c].cleanup # "none"
              THEN /\ pc' = [pc EXCEPT ![c] = "cleanup"]
                   /\ gstate' = [gstate EXCEPT ![c] = "entered"]
                   /\ gEntry' = [gEntry EXCEPT ![c] = x.count]
                   /\ graceDeadline' = [graceDeadline EXCEPT ![c] =
                                          now + CLEANUP_GRACE_PERIOD_SECONDS]
                   /\ cleanupSt' = [cleanupSt EXCEPT ![c] = "running"]
                   /\ cleanupCalls' = [cleanupCalls EXCEPT ![c] = @ + 1]
                   /\ UNCHANGED outcome
              ELSE /\ outcome' = [outcome EXCEPT ![c] = ReportTimeout(c)]
                   /\ pc' = [pc EXCEPT ![c] = "done"]
                   /\ UNCHANGED <<gstate, gEntry, graceDeadline, cleanupSt, cleanupCalls>>
         [] OTHER ->
              /\ outcome' = [outcome EXCEPT ![c] = FailureOutcome(c, x.exc)]
              /\ pc' = [pc EXCEPT ![c] = "done"]
              /\ UNCHANGED <<gstate, gEntry, graceDeadline, cleanupSt, cleanupCalls>>
    /\ UNCHANGED <<now, cfg, work, deadline, extCancels, extPhase, signals, graceLog>>
    /\ UNCHANGED mvars

\* Mutant: an Exception of the cleanup callback leaves the call.
AfterCleanupOutcome_ErrorEscapes(c, exc) ==
    IF exc \in {"CancelledError", "CleanupError"} THEN Raise(exc) ELSE ReportTimeout(c)

\* Mutant: `except BaseException` around the cleanup: the CancelledError of
\* the caller's context is logged like any failure of the cleanup.
AfterCleanupOutcome_CancelSwallowed(c, exc) == ReportTimeout(c)

\* run_with_timeout, lines 187-212: what leaves the call once the cleanup
\* callback has raised `exc` ("none": it returned). asyncio.TimeoutError and
\* Exception are caught and logged; a CancelledError is not caught.
AfterCleanupOutcome(c, exc) ==
    IF exc = "CancelledError" THEN Raise("CancelledError") ELSE ReportTimeout(c)

\* Mutant: the cleanup callback is started but not awaited.
CleanupAwaited_FireAndForget(c) == TRUE

\* `await cleanup_callback()`, line 190: the call goes on when the callback
\* has ended.
CleanupAwaited(c) == CleanupEnded(c)

\* run_with_timeout, lines 187-212, from the wake-up after
\* `await cleanup_callback()`: TimeoutError and Exception of the cleanup are
\* logged, a CancelledError leaves the call, and the timeout is reported.
ResumeAfterCleanup(c) ==
    LET x == AExit(gstate[c], cancelling[c], gEntry[c], AwaitCleanupRaises(c)) IN
    /\ pc[c] = "cleanup"
    /\ CleanupAwaited(c)
    /\ gstate' = [gstate EXCEPT ![c] = x.state]
    /\ cancelling' = [cancelling EXCEPT ![c] = x.count]
    /\ outcome' = [outcome EXCEPT ![c] = AfterCleanupOutcome(c, x.exc)]
    /\ pc' = [pc EXCEPT ![c] = "done"]
    /\ UNCHANGED <<now, cfg, work, mustCancel, tstate, gEntry, deadline, graceDeadline,
                   cleanupSt, cleanupCalls, extCancels, extPhase, signals, graceLog>>
    /\ UNCHANGED mvars

\* Mutant: the timeout branch returns without task.cancel() and without the
\* wait.
CancellationWait_Skipped(c) == "none"

\* The cancellation wait of run_with_timeout_and_cancel, lines 302-319:
\* task.cancel(), then `await task` under the grace timeout. The task has
\* ended by the time the TimeoutError is caught, so the await does not suspend.
CancellationWait(c) ==
    CASE work[c] = "cancelled"     -> "cancelled successfully"
      [] work[c] = "raisedTimeout" -> "did not respond to cancellation"
      [] work[c] = "raised"        -> "raised during cancellation"
      [] OTHER                     -> "completed"

\* run_with_timeout_and_cancel, lines 281-351, from the wake-up after
\* `await task` to the return.
ResumeRunWithTimeoutAndCancel(c) ==
    LET x == AExit(tstate[c], cancelling[c], 0, AwaitWorkRaises(c)) IN
    /\ pc[c] = "work"
    /\ cfg[c].kind = "run_with_timeout_and_cancel"
    /\ WorkEnded(c)
    /\ tstate' = [tstate EXCEPT ![c] = x.state]
    /\ cancelling' = [cancelling EXCEPT ![c] = x.count]
    /\ mustCancel' = [mustCancel EXCEPT ![c] = FALSE]
    /\ pc' = [pc EXCEPT ![c] = "done"]
    /\ CASE x.exc = "none" ->
              /\ outcome' = [outcome EXCEPT ![c] = TimeoutResult(TRUE, "v", FALSE, "none")]
              /\ UNCHANGED graceLog
         [] x.exc = "asyncio.TimeoutError" ->
              /\ graceLog' = [graceLog EXCEPT ![c] = CancellationWait(c)]
              /\ outcome' = [outcome EXCEPT ![c] =
                    TimeoutResult(FALSE, "none", TRUE, "KernelTimeoutError")]
         [] x.exc = "CancelledError" ->
              /\ outcome' = [outcome EXCEPT ![c] =
                    TimeoutResult(FALSE, "none", FALSE, "CancelledError")]
              /\ UNCHANGED graceLog
         [] OTHER ->
              /\ outcome' = [outcome EXCEPT ![c] = TimeoutResult(FALSE, "none", FALSE, x.exc)]
              /\ UNCHANGED graceLog
    /\ UNCHANGED <<now, cfg, work, gstate, gEntry, deadline, graceDeadline, cleanupSt,
                   cleanupCalls, extCancels, extPhase, signals>>
    /\ UNCHANGED mvars

\* The clock advances when no timer is due and no woken task is waiting to run.
Tick ==
    /\ now < MaxTime
    /\ \A c \in Calls : ~TimerDue(c) /\ ~GraceDue(c) /\ ~Runnable(c)
    /\ now' = now + 1
    /\ UNCHANGED <<cfg, pc, work, mustCancel, cancelling, tstate, gstate, gEntry, deadline,
                   graceDeadline, cleanupSt, cleanupCalls, extCancels, extPhase, signals, graceLog,
                   outcome>>
    /\ UNCHANGED mvars


\* ------------------------------------------------- conflict handler
Whitespace == {" ", "\n", "\t", "\r"}

\* Mutant: the output is searched as printed, in its own letter case.
Lower_CaseKept(t) == t

\* str.lower()
LowerChar(ch) ==
    CASE ch = "C" -> "c" [] ch = "O" -> "o" [] ch = "N" -> "n" [] ch = "F" -> "f"
      [] ch = "L" -> "l" [] ch = "I" -> "i" [] ch = "T" -> "t" [] OTHER -> ch
Lower(t) == [i \in 1..Len(t) |-> LowerChar(t[i])]

\* `needle in hay`
Contains(hay, needle) ==
    \E i \in 1..(Len(hay) - Len(needle) + 1) : SubSeq(hay, i, i + Len(needle) - 1) = needle

\* str.strip()
Strip(t) ==
    LET kept == {i \in 1..Len(t) : t[i] \notin Whitespace} IN
    IF kept = {} THEN <<>>
    ELSE SubSeq(t, CHOOSE i \in kept : \A j \in kept : i <= j,
                   CHOOSE i \in kept : \A j \in kept : j <= i)

RECURSIVE SplitLines(_)
\* str.split("\n")
SplitLines(t) ==
    LET breaks == {i \in 1..Len(t) : t[i] = "\n"} IN
    IF breaks = {} THEN <<t>>
    ELSE LET i == CHOOSE b \in breaks : \A j \in breaks : b <= j
         IN  <<SubSeq(t, 1, i - 1)>> \o SplitLines(SubSeq(t, i + 1, Len(t)))

NonEmpty(t) == t # <<>>

\* [line.strip() for line in stdout.split("\n") if line.strip()]
ConflictedFiles(stdout) ==
    LET lines == SplitLines(stdout)
        stripped == [i \in 1..Len(lines) |-> Strip(lines[i])]
    IN  SelectSeq(stripped, NonEmpty)

\* MergeResult(status, error_message, conflicted_files); raised: the
\* exception that left the function instead.
MergeResult(status, error_message, conflicted_files) ==
    [raised |-> "none", status |-> status, error_message |-> error_message,
     conflicted_files |-> conflicted_files]
MergeRaised(e) ==
    [raised |-> e, status |-> "none", error_message |-> "None", conflicted_files |-> "None"]
NoMergeResult ==
    [raised |-> "none", status |-> "pending", error_message |-> "None",
     conflicted_files |-> "None"]

\* detect_merge_conflicts, lines 153-175, given how its subprocess ended.
DetectMergeConflictsOf(d) ==
    CASE d.ended = "SubprocessError"   -> [raised |-> "none", files |-> <<>>]
      [] d.ended = "FileNotFoundError" -> [raised |-> "FileNotFoundError", files |-> <<>>]
      [] d.returncode # 0              -> [raised |-> "none", files |-> <<>>]
      [] Strip(d.stdout) = <<>>        -> [raised |-> "none", files |-> <<>>]
      [] OTHER -> [raised |-> "none", files |-> ConflictedFiles(Strip(d.stdout))]

\* combined_output = f"{result.stdout}\n{result.stderr}".lower(), line 96
CombinedOutput(m) == Lower(m.stdout \o <<"\n">> \o m.stderr)

\* "conflict" in combined_output, line 98
IsConflictOutput(m) == Contains(CombinedOutput(m), <<"c", "o", "n", "f", "l", "i", "c", "t">>)

\* Mutant: `error_message=error_msg or None`: no message for blank output.
ErrorMsg_NoneWhenBlank(m) ==
    IF Strip(m.stderr) # <<>> THEN Strip(m.stderr)
    ELSE IF Strip(m.stdout) # <<>> THEN Strip(m.stdout) ELSE "None"

\* error_msg = result.stderr.strip() or result.stdout.strip()
ErrorMsg(m) == IF Strip(m.stderr) # <<>> THEN Strip(m.stderr) ELSE Strip(m.stdout)

\* attempt_automatic_merge, lines 82-122, given how `git merge` ended and how
\* the `git diff` of detect_merge_conflicts ends if it is run.
AttemptAutomaticMergeOf(m, d) ==
    CASE m.ended = "SubprocessError"   -> MergeResult("ERROR", SubprocessErrorText, "None")
      [] m.ended = "FileNotFoundError" -> MergeRaised("FileNotFoundError")
      [] m.returncode = 0              -> MergeResult("MERGED", "None", "None")
      [] IsConflictOutput(m) ->
            IF DetectMergeConflictsOf(d).raised # "none"
            THEN MergeRaised(DetectMergeConflictsOf(d).raised)
            ELSE MergeResult("CONFLICT", ErrorMsg(m), DetectMergeConflictsOf(d).files)
      [] OTHER -> MergeResult("ERROR", ErrorMsg(m), "None")

\* Whether attempt_automatic_merge gets as far as detect_merge_conflicts.
RunsDiff(m) == m.ended = "completed" /\ m.returncode # 0 /\ IsConflictOutput(m)

\* The `git` that has just run the merge is there to run the diff.
InstalledDiffRuns == {d \in DiffRuns : d.ended # "FileNotFoundError"}

\* One call of attempt_automatic_merge(branch_name, project_dir).
AttemptAutomaticMerge ==
    /\ mpc = "ready"
    /\ \E d \in IF RunsDiff(mergeRun) THEN InstalledDiffRuns ELSE {NotRun} :
          /\ diffRun' = d
          /\ mergeResult' = AttemptAutomaticMergeOf(mergeRun, d)
    /\ mpc' = "done"
    /\ UNCHANGED <<mergeRun, detectRun, detectCalls, detectResult>>
    /\ UNCHANGED exceptMerge

NoDetectResult == [raised |-> "none", files |-> <<>>]

\* One call of detect_merge_conflicts(project_dir) by a caller of its own.
DetectMergeConflicts ==
    /\ detectCalls < MaxDetectCalls
    /\ \E d \in DiffRuns :
          /\ detectRun' = d
          /\ detectResult' = DetectMergeConflictsOf(d)
    /\ detectCalls' = detectCalls + 1
    /\ UNCHANGED <<mergeRun, diffRun, mpc, mergeResult>>
    /\ UNCHANGED exceptMerge

DetectIdle ==
    /\ detectRun = NotRun
    /\ detectCalls = 0
    /\ detectResult = NoDetectResult

MergeIdle ==
    /\ mergeRun = NotRun
    /\ diffRun = NotRun
    /\ mpc = "absent"
    /\ mergeResult = NoMergeResult
    /\ DetectIdle

\* ------------------------------------------------- working directory guard
\* resolve_absolute_path: Path.resolve() of a path, seen from directory `at`.
ResolveAbsolutePath(path, at) ==
    CASE path = "."  -> at
      [] path = "/l" -> "/p"
      [] OTHER       -> path

NoOp == [op |-> "none", guard |-> "none", before |-> "none", entry |-> "none",
         raised |-> "none", exc |-> "none"]

ActiveGuards == {scopes[i].guard : i \in 1..Len(scopes)}

\* WorkingDirectoryGuard(expected_cwd)
Construct(g, path) ==
    /\ raising = "none"
    /\ g \notin ActiveGuards
    /\ gExpected' = [gExpected EXCEPT ![g] = ResolveAbsolutePath(path, cwd)]
    /\ gOriginal' = [gOriginal EXCEPT ![g] = "None"]
    /\ lastOp' = [NoOp EXCEPT !.op = "construct", !.guard = g, !.before = cwd]
    /\ UNCHANGED <<cwd, scopes, raising>>
    /\ UNCHANGED exceptGuard

\* Mutant: the check at entry is left out.
CwdMismatch_Never(g, actual) == FALSE

\* if actual_cwd != self._expected_cwd, line 65
CwdMismatch(g, actual) == actual # gExpected[g]

\* `with guard:` up to the first statement of the body: __enter__, and the
\* body entered when it returns.
Enter(g) ==
    LET actual == ResolveAbsolutePath(cwd, cwd) IN
    /\ raising = "none"
    /\ gExpected[g] # "unset"
    /\ g \notin ActiveGuards
    /\ gOriginal' = [gOriginal EXCEPT ![g] = actual]
    /\ IF CwdMismatch(g, actual)
       THEN /\ raising' = "RuntimeError"
            /\ UNCHANGED scopes
            /\ lastOp' = [NoOp EXCEPT !.op = "enter", !.guard = g, !.before = cwd,
                                       !.raised = "RuntimeError"]
       ELSE /\ scopes' = Append(scopes, [guard |-> g, entry |-> cwd])
            /\ lastOp' = [NoOp EXCEPT !.op = "enter", !.guard = g, !.before = cwd,
                                       !.entry = cwd]
            /\ UNCHANGED raising
    /\ UNCHANGED <<cwd, gExpected>>
    /\ UNCHANGED exceptGuard

\* os.chdir(path) by the code that runs in or between the scopes.
Chdir(path) ==
    /\ raising = "none"
    /\ cwd' = ResolveAbsolutePath(path, cwd)
    /\ lastOp' = [NoOp EXCEPT !.op = "chdir", !.before = cwd]
    /\ UNCHANGED <<gExpected, gOriginal, scopes, raising>>
    /\ UNCHANGED exceptGuard

\* A statement of the innermost body raises.
BodyRaises ==
    /\ raising = "none"
    /\ scopes # <<>>
    /\ raising' = "BodyError"
    /\ lastOp' = [NoOp EXCEPT !.op = "raise", !.before = cwd]
    /\ UNCHANGED <<cwd, gExpected, gOriginal, scopes>>
    /\ UNCHANGED exceptGuard

\* An `except` clause around the statement that raised, or around the scope
\* that has been left, handles the exception.
Catch ==
    /\ raising # "none"
    /\ raising' = "none"
    /\ lastOp' = [NoOp EXCEPT !.op = "catch", !.before = cwd, !.exc = raising]
    /\ UNCHANGED <<cwd, gExpected, gOriginal, scopes>>
    /\ UNCHANGED exceptGuard

\* Mutant: the directory is restored only when the body ended normally.
ShouldRestore_OnlyOnNormalExit(g, current) ==
    raising = "none" /\ gOriginal[g] # "None" /\ current # gOriginal[g]

\* if self._original_cwd is not None and current_cwd != self._original_cwd
ShouldRestore(g, current) == gOriginal[g] # "None" /\ current # gOriginal[g]

\* The innermost scope is left, by the end of its body or by the exception
\* that is propagating: __exit__, which returns None.
Exit ==
    LET top == scopes[Len(scopes)]
        current == ResolveAbsolutePath(cwd, cwd)
    IN  /\ scopes # <<>>
        /\ cwd' = IF ShouldRestore(top.guard, current) THEN gOriginal[top.guard] ELSE cwd
        /\ scopes' = SubSeq(scopes, 1, Len(scopes) - 1)
        /\ lastOp' = [NoOp EXCEPT !.op = "exit", !.guard = top.guard, !.before = cwd,
                                   !.entry = top.entry, !.exc = raising]
        /\ UNCHANGED <<gExpected, gOriginal, raising>>
        /\ UNCHANGED exceptGuard

\* ------------------------------------------------- sub-agent client factory
\* What an agent definition file holds: the frontmatter, and a prompt that
\* tells the files apart.
FileContent(path) == [frontmatter |-> definition, prompt |-> path]

NoAgentFile ==
    [found |-> FALSE, path |-> AgentPath("none", "none"),
     frontmatter |-> [has_tools |-> FALSE, tools |-> <<>>, model |-> "absent"],
     prompt |-> AgentPath("none", "none"), searched |-> <<>>, agent |-> "none"]

\* Mutant: the shared definition of the agent is looked up after the
\* project-local fallback.
SearchPaths_FallbackFirst(agent_name) ==
    << AgentPath("project", agent_name), AgentPath("project", DEFAULT_AGENT),
       AgentPath("master", agent_name), AgentPath("master", DEFAULT_AGENT) >>

\* search_paths of load_agent_file, lines 174-181
SearchPaths(agent_name) ==
    << AgentPath("project", agent_name), AgentPath("master", agent_name),
       AgentPath("project", DEFAULT_AGENT), AgentPath("master", DEFAULT_AGENT) >>

\* load_agent_file, lines 170-195: the first search path that exists, read and
\* parsed; found = FALSE stands for the FileNotFoundError, which names the
\* agent and the searched paths.
LoadAgentFile(agent_name, files) ==
    LET paths == SearchPaths(agent_name)
        hits == {i \in 1..Len(paths) : paths[i] \in files}
    IN  IF hits = {}
        THEN [NoAgentFile EXCEPT !.searched = paths, !.agent = agent_name]
        ELSE LET first == CHOOSE i \in hits : \A j \in hits : i <= j
             IN  [found |-> TRUE, path |-> paths[first],
                  frontmatter |-> FileContent(paths[first]).frontmatter,
                  prompt |-> FileContent(paths[first]).prompt,
                  searched |-> paths, agent |-> agent_name]

NonEmptyName(t) == t # ""

\* parse_tools_from_frontmatter, lines 94-101
ParseToolsFromFrontmatter(fm) ==
    IF ~fm.has_tools THEN DEFAULT_TOOLS
    ELSE SelectSeq(fm.tools, NonEmptyName)

\* The grant of one tool, lines 137-145
Permission(tool) ==
    IF tool \in FILE_SCOPED_TOOLS THEN tool \o "(./**)"
    ELSE IF tool = "Bash" THEN "Bash(*)"
    ELSE tool

\* build_security_settings, lines 134-160
BuildSecuritySettings(allowed_tools, enable_mcp) ==
    [sandbox |-> [enabled |-> TRUE, autoAllowBashIfSandboxed |-> TRUE],
     permissions |->
        [defaultMode |-> "acceptEdits",
         allow |-> [i \in 1..Len(allowed_tools) |-> Permission(allowed_tools[i])]
                   \o (IF enable_mcp THEN PUPPETEER_TOOLS ELSE <<>>)]]

NoSettings ==
    [sandbox |-> [enabled |-> FALSE, autoAllowBashIfSandboxed |-> FALSE],
     permissions |-> [defaultMode |-> "none", allow |-> <<>>]]

NoClient ==
    [made |-> FALSE, model |-> "none", system_prompt |-> AgentPath("none", "none"),
     allowed_tools |-> <<>>, mcp_servers |-> {}, hooks |-> {}, settings |-> "none"]

\* hooks["PreToolUse"] = [HookMatcher(matcher="Bash", hooks=[bash_security_hook])]
BashHook == [event |-> "PreToolUse", matcher |-> "Bash", hook |-> "bash_security_hook"]

\* Mutant: the hook is attached to every client.
NeedsBashHook_Always(allowed_tools) == TRUE

\* if "Bash" in allowed_tools, line 272
NeedsBashHook(allowed_tools) == \E i \in 1..Len(allowed_tools) : allowed_tools[i] = "Bash"

\* Mutant: the credential is not looked at.
CredentialMissing_Ignored == FALSE

\* if not api_key, line 261
CredentialMissing == ~credential

NoSpawn ==
    [agent_name |-> "none", model |-> "none", enable_mcp |-> FALSE,
     step |-> "Absent", trace |-> <<>>,
     loaded |-> NoAgentFile, effective_model |-> "none", allowed_tools |-> <<>>,
     security_settings |-> NoSettings, settings_file |-> "none",
     client |-> NoClient, returned |-> FALSE, raised |-> "none"]

\* The step the call has reached is recorded as it is reached.
Reached(step) == [spawn EXCEPT !.step = step, !.trace = Append(@, step)]

\* Steps 1 and 2, lines 231-238: load_agent_file, effective model.
LoadDefinition ==
    LET loaded == LoadAgentFile(spawn.agent_name, agentFiles) IN
    /\ spawn.step = "Unresolved"
    /\ spawn' = IF loaded.found
                THEN [Reached("DefinitionLoaded") EXCEPT
                        !.loaded = loaded,
                        !.effective_model = IF loaded.frontmatter.model = "absent"
                                            THEN spawn.model
                                            ELSE loaded.frontmatter.model]
                ELSE [spawn EXCEPT !.step = "Raised", !.raised = "FileNotFoundError",
                                   !.loaded = loaded]
    /\ UNCHANGED <<agentFiles, definition, credential, diskWritable, settingsFile>>
    /\ UNCHANGED exceptSpawn

\* Step 3, line 241.
ParseTools ==
    /\ spawn.step = "DefinitionLoaded"
    /\ spawn' = [Reached("ToolsParsed") EXCEPT
                    !.allowed_tools = ParseToolsFromFrontmatter(spawn.loaded.frontmatter)]
    /\ UNCHANGED <<agentFiles, definition, credential, diskWritable, settingsFile>>
    /\ UNCHANGED exceptSpawn

\* Step 4, lines 244-248.
BuildProfile ==
    /\ spawn.step = "ToolsParsed"
    /\ spawn' = [Reached("ProfileBuilt") EXCEPT
                    !.security_settings =
                        BuildSecuritySettings(spawn.allowed_tools, spawn.enable_mcp)]
    /\ UNCHANGED <<agentFiles, definition, credential, diskWritable, settingsFile>>
    /\ UNCHANGED exceptSpawn

\* Step 5, line 251: write_settings_file, lines 175-181.
PersistProfile ==
    /\ spawn.step = "ProfileBuilt"
    /\ IF diskWritable
       THEN /\ settingsFile' = [written |-> TRUE, settings |-> spawn.security_settings]
            /\ spawn' = [Reached("ProfilePersisted") EXCEPT
                            !.settings_file = ".claude_subagent_settings.json"]
       ELSE /\ spawn' = [spawn EXCEPT !.step = "Raised", !.raised = "OSError"]
            /\ UNCHANGED settingsFile
    /\ UNCHANGED <<agentFiles, definition, credential, diskWritable>>
    /\ UNCHANGED exceptSpawn

\* Steps 6 to 10, lines 254-291: prompt, credential, MCP servers, hooks, client.
MakeClient ==
    /\ spawn.step = "ProfilePersisted"
    /\ spawn' =
          IF CredentialMissing
          THEN [spawn EXCEPT !.step = "Raised", !.raised = "ValueError"]
          ELSE [Reached("ClientReady") EXCEPT
                  !.returned = TRUE,
                  !.client =
                      [made |-> TRUE,
                       model |-> spawn.effective_model,
                       system_prompt |-> spawn.loaded.prompt,
                       allowed_tools |-> spawn.allowed_tools,
                       mcp_servers |-> IF spawn.enable_mcp THEN {"puppeteer"} ELSE {},
                       hooks |-> IF NeedsBashHook(spawn.allowed_tools) THEN {BashHook} ELSE {},
                       settings |-> spawn.settings_file]]
    /\ UNCHANGED <<agentFiles, definition, credential, diskWritable, settingsFile>>
    /\ UNCHANGED exceptSpawn

NoSettingsFile == [written |-> FALSE, settings |-> NoSettings]

SpawnIdle ==
    /\ agentFiles = {}
    /\ definition = [has_tools |-> FALSE, tools |-> <<>>, model |-> "absent"]
    /\ credential = FALSE
    /\ diskWritable = FALSE
    /\ settingsFile = NoSettingsFile
    /\ spawn = NoSpawn

GuardIdle ==
    /\ cwd = "/p"
    /\ gExpected = [g \in Guards |-> "unset"]
    /\ gOriginal = [g \in Guards |-> "None"]
    /\ scopes = <<>>
    /\ raising = "none"
    /\ lastOp = NoOp

\* ------------------------------------------------- metrics log: operations
\* The results of load_metrics: a list, None, or an exception that leaves it.
Loaded(items) == [raised |-> "none", value |-> "list", items |-> items]
LoadedNone == [raised |-> "none", value |-> "None", items |-> <<>>]
LoadRaises(exc) == [raised |-> exc, value |-> "none", items |-> <<>>]

IsDictEntry(entry) == entry.tag = "dict"

\* load_metrics lines 122-139: entries that are not dicts or lack a key are
\* skipped, the others become MetricsData in file order.
EntriesToMetrics(entries) ==
    LET kept == SelectSeq(entries, IsDictEntry)
    IN  [i \in 1 .. Len(kept) |-> kept[i].fields]

LoadMetrics(file) ==
    CASE file.kind = "missing"   -> LoadedNone
      [] file.kind = "directory" -> LoadedNone
      [] file.kind = "not_utf8"  -> LoadRaises("UnicodeDecodeError")
      [] file.kind = "not_json"  -> LoadedNone
      [] file.kind = "not_list"  -> LoadedNone
      [] file.kind = "list"      -> Loaded(EntriesToMetrics(file.entries))

\* append_metrics lines 171-172.
ExistingOrEmpty_AlwaysEmpty(loaded) == <<>>

ExistingOrEmpty(loaded) ==
    IF loaded.value = "None" THEN <<>> ELSE loaded.items

\* asdict of every entry, as json.dump writes them.
MetricsToEntries(metrics_list) ==
    [i \in 1 .. Len(metrics_list) |-> DictEntry(metrics_list[i])]

AllSerializable(metrics_list) ==
    \A i \in 1 .. Len(metrics_list) : Serializable(metrics_list[i])

\* save_metrics: the file afterwards and the value returned. open(..., "w")
\* empties the file before json.dump writes, so a dump that fails leaves a
\* file that is not JSON.
SaveMetrics(metrics_list, file, env) ==
    IF file.kind = "directory" \/ env = "OSError_open"
    THEN [file |-> file, returned |-> FALSE]
    ELSE IF env = "OSError_write" \/ ~AllSerializable(metrics_list)
    THEN [file |-> NotJsonFile, returned |-> FALSE]
    ELSE [file |-> ListFile(MetricsToEntries(metrics_list)), returned |-> TRUE]

NoCall ==
    [op |-> "none", metrics |-> BlankRecord, before |-> NoFile, env |-> "ok",
     raised |-> "none", returned |-> "none", loaded |-> LoadedNone]

\* The log a reader gets from the file.
StoredLog(file) ==
    LET loaded == LoadMetrics(file)
    IN  IF loaded.value = "list" THEN loaded.items ELSE <<>>

\* A call of load_metrics(file_path).
LoadMetricsCall ==
    /\ metricsCall' = [NoCall EXCEPT !.op = "load_metrics",
                                     !.before = metricsFile,
                                     !.raised = LoadMetrics(metricsFile).raised,
                                     !.loaded = LoadMetrics(metricsFile)]
    /\ UNCHANGED <<metricsFile, appended, allSucceeded, initialLog, appendCalls>>
    /\ UNCHANGED exceptMetrics

\* The body of append_metrics(metrics, file_path), called as op.
AppendBody(op, metrics, env) ==
    LET loaded == LoadMetrics(metricsFile)
        existing == ExistingOrEmpty(loaded)
        saved == SaveMetrics(Append(existing, metrics), metricsFile, env)
    IN  /\ appendCalls < MaxAppends
        /\ appendCalls' = appendCalls + 1
        /\ UNCHANGED initialLog
        /\ UNCHANGED exceptMetrics
        /\ IF loaded.raised # "none"
           THEN /\ metricsCall' = [NoCall EXCEPT !.op = op, !.metrics = metrics,
                                                 !.before = metricsFile, !.env = env,
                                                 !.raised = loaded.raised,
                                                 !.loaded = loaded]
                /\ allSucceeded' = FALSE
                /\ UNCHANGED <<metricsFile, appended>>
           ELSE /\ metricsFile' = saved.file
                /\ metricsCall' = [NoCall EXCEPT !.op = op, !.metrics = metrics,
                                                 !.before = metricsFile, !.env = env,
                                                 !.returned =
                                                     IF saved.returned THEN "True"
                                                                       ELSE "False",
                                                 !.loaded = loaded]
                /\ allSucceeded' = (allSucceeded /\ saved.returned)
                /\ appended' = IF saved.returned THEN Append(appended, metrics)
                                                 ELSE appended

\* append_metrics called directly, with any MetricsData.
AppendMetrics ==
    \E metrics \in MetricsData \cup {UnserializableMetrics}, env \in SaveEnvs :
        AppendBody("append_metrics", metrics, env)

\* record_execution(issue_id, agent_type, start_time, end_time, status).
RecordExecution ==
    \E issue_id \in IssueIds, agent_type \in AgentTypes, start_time \in StartTicks,
       end_time \in EndTicks, status \in Statuses, env \in SaveEnvs :
        AppendBody("record_execution",
                   NewExecutionRecord(issue_id, agent_type, start_time, end_time, status),
                   env)

MetricsIdle ==
    /\ metricsFile = NoFile
    /\ metricsCall = NoCall
    /\ appended = <<>>
    /\ allSucceeded = TRUE
    /\ initialLog = <<>>
    /\ appendCalls = 0

\* ------------------------------------------------- overlapping appends
\* The list handed to save_metrics is built from the list this call loaded.
ListToSave_Reloaded(w) == Append(StoredLog(sharedFile), writers[w].metrics)

\* metrics_list.append(metrics), line 175, on the list of lines 170-172.
ListToSave(w) == Append(writers[w].existing, writers[w].metrics)

NoWriter(metrics) ==
    [at |-> "called", metrics |-> metrics, existing |-> <<>>, loadedFrom |-> NoFile,
     overlapped |-> FALSE, raised |-> "none", returned |-> "none"]

\* append_metrics lines 170-172: load_metrics, and None becomes [].
OverlapLoad(w) ==
    LET loaded == LoadMetrics(sharedFile)
    IN  /\ writers[w].at = "called"
        /\ writers' =
              [writers EXCEPT ![w] =
                 IF loaded.raised # "none"
                 THEN [@ EXCEPT !.at = "raised", !.raised = loaded.raised,
                                !.loadedFrom = sharedFile]
                 ELSE [@ EXCEPT !.at = "loaded", !.existing = ExistingOrEmpty(loaded),
                                !.loadedFrom = sharedFile,
                                !.overlapped = (saveOrder = <<>>)]]
        /\ UNCHANGED <<sharedFile, sharedStart, saveOrder>>
        /\ UNCHANGED exceptOverlap

\* append_metrics lines 175-178: append to the loaded list, save_metrics.
OverlapSave(w) ==
    \E env \in SaveEnvs :
        LET saved == SaveMetrics(ListToSave(w), sharedFile, env)
        IN  /\ writers[w].at = "loaded"
            /\ sharedFile' = saved.file
            /\ writers' = [writers EXCEPT ![w] =
                              [@ EXCEPT !.at = "returned",
                                        !.returned = IF saved.returned THEN "True"
                                                                       ELSE "False"]]
            /\ saveOrder' = Append(saveOrder, w)
            /\ UNCHANGED sharedStart
            /\ UNCHANGED exceptOverlap

OverlapIdle ==
    /\ sharedFile = NoFile
    /\ sharedStart = NoFile
    /\ writers = [w \in Writers |-> NoWriter(BlankRecord)]
    /\ saveOrder = <<>>

\* ------------------------------------------------- several spawns
\* settings_file = project_dir / ".claude_subagent_settings.json", line 177
SettingsPath(project_dir) == <<project_dir, ".claude_subagent_settings.json">>

NoClientCall(project_dir, allowed_tools, enable_mcp) ==
    [at |-> "called", project_dir |-> project_dir, allowed_tools |-> allowed_tools,
     enable_mcp |-> enable_mcp, settings_file |-> <<"none", "none">>,
     client |-> [made |-> FALSE, allowed_tools |-> <<>>, cwd |-> "none",
                 settings |-> <<"none", "none">>]]

\* Steps 1 to 5 of create_subagent_client, lines 230-251: the tools of the
\* agent, build_security_settings, write_settings_file into project_dir.
SpawnWriteSettings(s) ==
    /\ clients[s].at = "called"
    /\ projectSettings' =
          [projectSettings EXCEPT ![clients[s].project_dir] =
              [written |-> TRUE,
               settings |-> BuildSecuritySettings(clients[s].allowed_tools,
                                                  clients[s].enable_mcp)]]
    /\ clients' = [clients EXCEPT ![s] =
                      [@ EXCEPT !.at = "written",
                                !.settings_file = SettingsPath(clients[s].project_dir)]]
    /\ UNCHANGED exceptClients

\* Steps 6 to 10, lines 254-291: the client, with settings=str(settings_file).
SpawnMakeClient(s) ==
    /\ clients[s].at = "written"
    /\ clients' = [clients EXCEPT ![s] =
                      [@ EXCEPT !.at = "returned",
                                !.client = [made |-> TRUE,
                                            allowed_tools |-> clients[s].allowed_tools,
                                            cwd |-> clients[s].project_dir,
                                            settings |-> clients[s].settings_file]]]
    /\ UNCHANGED projectSettings
    /\ UNCHANGED exceptClients

ClientsIdle ==
    /\ projectSettings = [d \in ProjectDirs |-> NoSettingsFile]
    /\ clients = [s \in SpawnCalls |-> NoClientCall("/p", <<>>, FALSE)]

\* ------------------------------------------------- parallel atoms: success rate
\* A success rate: the float n / d, or the float that is not a number.
Rate(n, d) == [nan |-> FALSE, n |-> n, d |-> d]
NotANumber == [nan |-> TRUE, n |-> 0, d |-> 1]

\* rate >= pct / 100, rate < pct / 100, rate > pct / 100 as floats compare:
\* every comparison with the float that is not a number is false.
RateGE_Strict(rate, pct) == ~rate.nan /\ rate.n * 100 > pct * rate.d

RateGE(rate, pct) == ~rate.nan /\ rate.n * 100 >= pct * rate.d
RateLT(rate, pct) == ~rate.nan /\ rate.n * 100 < pct * rate.d
RateGT(rate, pct) == ~rate.nan /\ rate.n * 100 > pct * rate.d

\* The records of the executions list: 'success' is True, False, or absent.
ExecutionRecords ==
    {[has_success |-> TRUE, success |-> TRUE],
     [has_success |-> TRUE, success |-> FALSE],
     [has_success |-> FALSE, success |-> FALSE]}

Windows == 0 .. MaxWindow

\* seq[start:] of Python, start counted from the end when negative.
SliceFrom(seq, start) ==
    LET n == Len(seq)
        from == IF start < 0
                THEN (IF start + n < 0 THEN 0 ELSE start + n)
                ELSE (IF start > n THEN n ELSE start)
    IN  SubSeq(seq, from + 1, n)

\* e.get("success", False)
GetSuccess(e) == e.has_success /\ e.success

\* sum(1 for e in recent if e.get("success", False))
Successes(recent) == Cardinality({i \in 1 .. Len(recent) : GetSuccess(recent[i])})

\* calculate_success_rate(executions, window)
CalculateSuccessRateOf(execs, window) ==
    IF execs = <<>> THEN Rate(0, 1)
    ELSE LET recent == SliceFrom(execs, 0 - window)
         IN  IF recent = <<>> THEN Rate(0, 1)
             ELSE Rate(Successes(recent), Len(recent))

NoRateCall == [fn |-> "none", window |-> 0, rate |-> Rate(0, 1)]

CalculateSuccessRate ==
    \E window \in Windows :
        /\ rateCall' = [fn |-> "calculate_success_rate", window |-> window,
                        rate |-> CalculateSuccessRateOf(executions, window)]
        /\ UNCHANGED executions
        /\ UNCHANGED exceptRate

RateIdle ==
    /\ executions = <<>>
    /\ rateCall = NoRateCall

\* ------------------------------------------------- scaling rules
\* The success rates the rules are asked about, in hundredths; below 0,
\* above 1 and not-a-number included.
RatePercents == {0 - 50, 0, 49, 50, 51, 69, 70, 71, 80, 81, 89, 90, 100, 150}
Rates == {Rate(pct, 100) : pct \in RatePercents} \cup {NotANumber}
Levels == (0 - 1) .. 6
Loads == (0 - 1) .. 7

Max(a, b) == IF a >= b THEN a ELSE b
Min(a, b) == IF a <= b THEN a ELSE b

\* parallel_atoms.recommend_parallelism(success_rate, current_parallel)
RecommendParallelismOf(success_rate, current_parallel) ==
    LET new_parallel ==
            IF RateGE(success_rate, 90) THEN current_parallel + 1
            ELSE IF RateLT(success_rate, 70) THEN current_parallel - 1
            ELSE current_parallel
    IN  Max(1, Min(4, new_parallel))

\* max(0.0, min(1.0, success_rate)): min and max keep their first argument
\* unless the second compares smaller (greater).
ClampRate(success_rate) ==
    LET capped == IF RateLT(success_rate, 100) THEN success_rate ELSE Rate(1, 1)
    IN  IF RateGT(capped, 0) THEN capped ELSE Rate(0, 1)

MayIncrease_AnyLoad(current_load) == TRUE

\* improvement_tracker.recommend_parallelism: `current_load < 3`
MayIncrease(current_load) == current_load < 3

\* improvement_tracker.recommend_parallelism(current_load, success_rate)
TrackerRecommendParallelismOf(current_load, success_rate) ==
    LET rate == ClampRate(success_rate)
        recommended ==
            IF RateGT(rate, 80) /\ MayIncrease(current_load) THEN current_load + 1
            ELSE IF RateLT(rate, 50) THEN Max(1, current_load - 1)
            ELSE current_load
    IN  Max(1, Min(5, recommended))

NoScaleCall == [fn |-> "none", rate |-> Rate(0, 1), level |-> 0, result |-> 0]

\* The atoms' rule applied to the current parallel count.
RecommendParallelism ==
    \E success_rate \in Rates :
        /\ parallel' = RecommendParallelismOf(success_rate, parallel)
        /\ scaleCall' = [fn |-> "parallel_atoms.recommend_parallelism",
                         rate |-> success_rate, level |-> parallel,
                         result |-> parallel']
        /\ UNCHANGED <<load, firstLoad>>
        /\ UNCHANGED exceptScaling

\* The tracker's rule applied to the current load.
TrackerRecommendParallelism ==
    \E success_rate \in Rates :
        /\ load' = TrackerRecommendParallelismOf(load, success_rate)
        /\ scaleCall' = [fn |-> "improvement_tracker.recommend_parallelism",
                         rate |-> success_rate, level |-> load,
                         result |-> load']
        /\ UNCHANGED <<parallel, firstLoad>>
        /\ UNCHANGED exceptScaling

ScalingIdle ==
    /\ parallel = 2
    /\ load = 1
    /\ firstLoad = 1
    /\ scaleCall = NoScaleCall

\* ------------------------------------------------- priority sort
SortIssueIds == {"a", "b"}
Priorities == {0, 2, 4}

\* An issue dict: its id, and its 'priority' key when it has one.
Issues ==
    [id : SortIssueIds, has_priority : {TRUE}, priority : Priorities]
    \cup [id : SortIssueIds, has_priority : {FALSE}, priority : {0}]

PriorityKey_MissingFirst(issue) ==
    IF issue.has_priority THEN issue.priority ELSE 0

\* issue.get("priority", 5)
PriorityKey(issue) ==
    IF issue.has_priority THEN issue.priority ELSE 5

\* One step of a stable sort: x goes behind every element whose key is not
\* greater than its own.
InsertByKey(sortedList, x) ==
    LET notAfter == {i \in 1 .. Len(sortedList) :
                        PriorityKey(sortedList[i]) <= PriorityKey(x)}
        k == Cardinality(notAfter)
    IN  SubSeq(sortedList, 1, k) \o <<x>> \o SubSeq(sortedList, k + 1, Len(sortedList))

RECURSIVE Sorted(_)
\* sorted(issues, key=...): a stable sort that builds a new list.
Sorted(list) ==
    IF list = <<>> THEN <<>>
    ELSE InsertByKey(Sorted(SubSeq(list, 1, Len(list) - 1)), list[Len(list)])

NoSortCall == [fn |-> "none", input |-> <<>>, result |-> <<>>]

SortByPriority ==
    /\ sortCall' = [fn |-> "sort_by_priority", input |-> issues,
                    result |-> Sorted(issues)]
    /\ UNCHANGED issues
    /\ UNCHANGED exceptSort

SortIdle ==
    /\ issues = <<>>
    /\ sortCall = NoSortCall

\* ------------------------------------------------- plan query: text
\* Plan text is a sequence of symbols: the word "Phase" in two spellings,
\* digits, the colon, the dash, blanks, and "x" for any other character.
PhaseWords == {"Phase", "PHASE"}
Digits == {"1", "2"}

\* The lines the planning tool's output is made of.
PlanLines ==
    { <<"Phase", " ", "1", ":", " ", "x">>,
      <<"PHASE", " ", " ", "2", "1", ":">>,
      <<"\t", "Phase", " ", "2", ":", "x", " ">>,
      <<"Phase", "1", ":", "x">>,
      <<"Phase", "x", " ", "1", ":">>,
      <<"-", " ", "x">>,
      <<" ", "-", " ", " ", "x", " ", "x", " ">>,
      <<"-", "x">>,
      <<"-", " ">>,
      <<"-", " ", " ">>,
      <<"x", " ", "-", " ", "x">>,
      <<" ">>,
      <<>> }

RECURSIVE JoinLines(_)
\* The lines with a newline between them.
JoinLines(lines) ==
    IF lines = <<>> THEN <<>>
    ELSE IF Len(lines) = 1 THEN lines[1]
    ELSE lines[1] \o <<"\n">> \o JoinLines(Tail(lines))

PlanTexts == { JoinLines(ls) : ls \in SeqsUpTo(PlanLines, MaxLines) }

\* The number of symbols of t from position i on that are all in set.
RunLength(t, i, set) ==
    LET ends == {j \in (i - 1) .. Len(t) : \A k \in i .. j : t[k] \in set}
    IN  (CHOOSE j \in ends : \A k \in ends : k <= j) - (i - 1)

\* re.compile(r"^(Phase\s+\d+:.*?)$", IGNORECASE | MULTILINE).match(line):
\* whether it matches.
PhasePatternMatches(line) ==
    /\ Len(line) >= 1
    /\ line[1] \in PhaseWords
    /\ LET blanks == RunLength(line, 2, Whitespace)
           digits == RunLength(line, 2 + blanks, Digits)
       IN  /\ blanks >= 1
           /\ digits >= 1
           /\ 2 + blanks + digits <= Len(line)
           /\ line[2 + blanks + digits] = ":"

NoMatch == [matched |-> FALSE, group |-> <<>>]

TaskPatternMatch_AnyDash(line) ==
    LET lead == RunLength(line, 1, Whitespace)
    IN  IF lead + 1 <= Len(line) /\ line[lead + 1] = "-" /\ lead + 2 <= Len(line)
        THEN [matched |-> TRUE, group |-> SubSeq(line, lead + 2, Len(line))]
        ELSE NoMatch

\* re.compile(r"^\s*-\s+(.+)$").match(line): whether it matches, and group 1.
\* \s+ takes every blank behind the dash and gives the last one back when
\* nothing else is left for (.+).
TaskPatternMatch(line) ==
    LET lead == RunLength(line, 1, Whitespace)
        blanks == RunLength(line, lead + 2, Whitespace)
    IN  IF lead + 1 > Len(line) \/ line[lead + 1] # "-" \/ blanks = 0
        THEN NoMatch
        ELSE IF lead + 1 + blanks < Len(line)
        THEN [matched |-> TRUE, group |-> SubSeq(line, lead + 2 + blanks, Len(line))]
        ELSE IF blanks >= 2
        THEN [matched |-> TRUE, group |-> <<line[Len(line)]>>]
        ELSE NoMatch

RECURSIVE ParseLines(_, _, _)
\* The loop of parse_bv_plan_output, lines 89-111: phases are the phases
\* closed so far, current is the open one (a list of none or one).
ParseLines(lines, phases, current) ==
    IF lines = <<>> THEN phases \o current
    ELSE LET line == Head(lines)
             task == TaskPatternMatch(line)
         IN  IF PhasePatternMatches(Strip(line))
             THEN ParseLines(Tail(lines), phases \o current,
                             << [name |-> Strip(Strip(line)), tasks |-> <<>>] >>)
             ELSE IF current # <<>> /\ task.matched
             THEN ParseLines(Tail(lines), phases,
                             << [current[1] EXCEPT !.tasks = Append(@, Strip(task.group))] >>)
             ELSE ParseLines(Tail(lines), phases, current)

\* raw_output: None, or a text.
NoneText == [is_none |-> TRUE, text |-> <<>>]
SomeText(t) == [is_none |-> FALSE, text |-> t]

\* parse_bv_plan_output(raw_output)
ParseBvPlanOutputOf(raw_output) ==
    IF raw_output.is_none \/ Strip(raw_output.text) = <<>> THEN <<>>
    ELSE ParseLines(SplitLines(raw_output.text), <<>>, <<>>)

\* ------------------------------------------------- plan query
\* The ways subprocess.run ends.
RunEndings == {"exit", "FileNotFoundError", "TimeoutExpired", "SubprocessError", "PermissionError"}

BvEnvs ==
    [resolvable : {FALSE}, ended : {"exit"}, returncode : {0}, stdout : {<<>>}, stderr : {<<>>}]
    \cup
    [resolvable : {TRUE}, ended : RunEndings \ {"exit"}, returncode : {0}, stdout : {<<>>},
     stderr : {<<>>}]
    \cup
    [resolvable : {TRUE}, ended : {"exit"}, returncode : {0, 1}, stdout : PlanTexts,
     stderr : {<<>>, <<"x", "\n">>}]

\* error_message: None, or the text the f-string gives, kept by its parts.
NoMessage == [kind |-> "None", exit |-> 0, detail |-> <<>>]
Message(kind) == [kind |-> kind, exit |-> 0, detail |-> <<>>]

\* result.stderr.strip() or result.stdout.strip() or "Unknown error"
ErrorDetail(run) ==
    IF Strip(run.stderr) # <<>> THEN Strip(run.stderr)
    ELSE IF Strip(run.stdout) # <<>> THEN Strip(run.stdout)
    ELSE <<"Unknown error">>

\* BVRobotPlan(success, raw_output, phases, error_message)
BVRobotPlan(success, raw_output, phases, error_message) ==
    [called |-> TRUE, raised |-> "none", success |-> success, raw_output |-> raw_output,
     phases |-> phases, error_message |-> error_message]

NoPlan ==
    [called |-> FALSE, raised |-> "none", success |-> FALSE, raw_output |-> <<>>,
     phases |-> <<>>, error_message |-> NoMessage]

PlanOnExit_ParsedAlways(env) ==
    BVRobotPlan(TRUE, env.stdout, ParseBvPlanOutputOf(SomeText(env.stdout)), NoMessage)

\* query_bv_robot_plan, lines 173-193: the process has exited.
PlanOnExit(env) ==
    IF env.returncode # 0
    THEN BVRobotPlan(FALSE, env.stdout, <<>>,
                     [kind |-> "BV CLI failed (exit", exit |-> env.returncode,
                      detail |-> ErrorDetail(env)])
    ELSE BVRobotPlan(TRUE, env.stdout, ParseBvPlanOutputOf(SomeText(env.stdout)), NoMessage)

\* query_bv_robot_plan(project_dir, bv_executable, timeout_seconds)
QueryBvRobotPlanOf(env) ==
    IF ~env.resolvable
    THEN BVRobotPlan(FALSE, <<>>, <<>>, Message("BV CLI unavailable: not found in PATH"))
    ELSE CASE env.ended = "exit" -> PlanOnExit(env)
           [] env.ended = "FileNotFoundError" ->
                BVRobotPlan(FALSE, <<>>, <<>>,
                            Message("BV CLI unavailable: executable not found"))
           [] env.ended = "TimeoutExpired" ->
                BVRobotPlan(FALSE, <<>>, <<>>, Message("BV CLI timed out after"))
           [] env.ended = "SubprocessError" ->
                BVRobotPlan(FALSE, <<>>, <<>>, Message("BV CLI subprocess error"))
           [] OTHER ->
                BVRobotPlan(FALSE, <<>>, <<>>, Message("Unexpected error"))

QueryBvRobotPlan ==
    /\ ~bvPlan.called
    /\ bvPlan' = QueryBvRobotPlanOf(bvEnv)
    /\ UNCHANGED <<bvEnv, parseCall>>
    /\ UNCHANGED exceptPlan

NoParseCall == [called |-> FALSE, input |-> NoneText, phases |-> <<>>]

\* parse_bv_plan_output called on None or on the text the process printed.
ParseBvPlanOutput ==
    \E raw_output \in {NoneText, SomeText(bvEnv.stdout)} :
        /\ parseCall' = [called |-> TRUE, input |-> raw_output,
                         phases |-> ParseBvPlanOutputOf(raw_output)]
        /\ UNCHANGED <<bvEnv, bvPlan>>
        /\ UNCHANGED exceptPlan

PlanIdle ==
    /\ bvEnv = [resolvable |-> FALSE, ended |-> "exit", returncode |-> 0,
                stdout |-> <<>>, stderr |-> <<>>]
    /\ bvPlan = NoPlan
    /\ parseCall = NoParseCall

\* ------------------------------------------------- later parts at rest
LaterIdle ==
    /\ OverlapIdle
    /\ ClientsIdle
    /\ RateIdle
    /\ ScalingIdle
    /\ SortIdle
    /\ PlanIdle

\* ------------------------------------------------- specifications
TimeoutInit(inputs) ==
    /\ now = 0
    /\ cfg = inputs
    /\ work = [c \in Calls |-> "idle"]
    /\ mustCancel = [c \in Calls |-> FALSE]
    /\ cancelling = [c \in Calls |-> 0]
    /\ tstate = [c \in Calls |-> "created"]
    /\ gstate = [c \in Calls |-> "created"]
    /\ gEntry = [c \in Calls |-> 0]
    /\ deadline = [c \in Calls |-> 0]
    /\ graceDeadline = [c \in Calls |-> 0]
    /\ cleanupSt = [c \in Calls |-> "idle"]
    /\ cleanupCalls = [c \in Calls |-> 0]
    /\ extCancels = [c \in Calls |-> 0]
    /\ extPhase = [c \in Calls |-> {}]
    /\ signals = [c \in Calls |-> 0]
    /\ graceLog = [c \in Calls |-> "none"]
    /\ outcome = [c \in Calls |-> NoOutcome]

\* One bounded-execution call, with every behaviour of work and cleanup.
Init ==
    /\ \E i \in Inputs : TimeoutInit([c \in Calls |-> IF c = "a" THEN i ELSE AbsentInput])
    /\ pc = [c \in Calls |-> IF c = "a" THEN "ready" ELSE "absent"]
    /\ MergeIdle
    /\ GuardIdle
    /\ SpawnIdle
    /\ MetricsIdle
    /\ LaterIdle

\* Two bounded-execution calls in flight on one event loop.
InitParallel ==
    /\ \E ia \in ParallelInputs, ib \in ParallelInputs :
          TimeoutInit([c \in Calls |-> IF c = "a" THEN ia ELSE ib])
    /\ pc = [c \in Calls |-> "ready"]
    /\ MergeIdle
    /\ GuardIdle
    /\ SpawnIdle
    /\ MetricsIdle
    /\ LaterIdle

\* One merge attempt.
InitMerge ==
    /\ TimeoutInit([c \in Calls |-> AbsentInput])
    /\ pc = [c \in Calls |-> "absent"]
    /\ mergeRun \in MergeRuns
    /\ diffRun = NotRun
    /\ mpc = "ready"
    /\ mergeResult = NoMergeResult
    /\ DetectIdle
    /\ GuardIdle
    /\ SpawnIdle
    /\ MetricsIdle
    /\ LaterIdle

NextMerge == AttemptAutomaticMerge

\* Calls of detect_merge_conflicts.
TimeoutIdle ==
    /\ TimeoutInit([c \in Calls |-> AbsentInput])
    /\ pc = [c \in Calls |-> "absent"]

InitDetect ==
    /\ TimeoutIdle
    /\ MergeIdle
    /\ GuardIdle
    /\ SpawnIdle
    /\ MetricsIdle
    /\ LaterIdle

NextDetect == DetectMergeConflicts

\* Guards constructed, entered and left by code that changes directory.
InitGuard ==
    /\ TimeoutIdle
    /\ MergeIdle
    /\ cwd \in GuardDirs
    /\ gExpected = [g \in Guards |-> "unset"]
    /\ gOriginal = [g \in Guards |-> "None"]
    /\ scopes = <<>>
    /\ raising = "none"
    /\ lastOp = NoOp
    /\ SpawnIdle
    /\ MetricsIdle
    /\ LaterIdle

NextGuard ==
    \/ \E g \in Guards, path \in GuardPaths : Construct(g, path)
    \/ \E g \in Guards : Enter(g)
    \/ \E path \in GuardPaths : Chdir(path)
    \/ BodyRaises
    \/ Catch
    \/ Exit

Next ==
    \/ Tick
    \/ \E c \in Calls : Start(c)
    \/ \E c \in Calls : WorkFinishes(c)
    \/ \E c \in Calls : WorkUnwinds(c)
    \/ \E c \in Calls : DeadlineExpires(c)
    \/ \E c \in Calls : ExternalCancel(c)
    \/ \E c \in Calls : ResumeRunWithTimeout(c)
    \/ \E c \in Calls : ResumeRunWithTimeoutAndCancel(c)
    \/ \E c \in Calls : CleanupFinishes(c)
    \/ \E c \in Calls : GraceExpires(c)
    \/ \E c \in Calls : ResumeAfterCleanup(c)

NextParallel ==
    \/ Tick
    \/ \E c \in Calls : Start(c)
    \/ \E c \in Calls : WorkFinishes(c)
    \/ \E c \in Calls : DeadlineExpires(c)
    \/ \E c \in Calls : ResumeRunWithTimeout(c)
    \/ \E c \in Calls : ResumeRunWithTimeoutAndCancel(c)
    \/ \E c \in Calls : CleanupFinishes(c)
    \/ \E c \in Calls : GraceExpires(c)
    \/ \E c \in Calls : ResumeAfterCleanup(c)

Spec == Init /\ [][Next]_vars

SpecParallel == InitParallel /\ [][NextParallel]_vars

SpecMerge == InitMerge /\ [][NextMerge]_vars

SpecDetect == InitDetect /\ [][NextDetect]_vars

\* One call of create_subagent_client(agent_name, project_dir, model, ...).
InitSpawn ==
    /\ TimeoutIdle
    /\ MergeIdle
    /\ GuardIdle
    /\ agentFiles \in SUBSET AgentPaths
    /\ definition \in Frontmatters
    /\ credential \in BOOLEAN
    /\ diskWritable \in BOOLEAN
    /\ settingsFile = NoSettingsFile
    /\ \E a \in AgentNames, mcp \in BOOLEAN :
          spawn = [NoSpawn EXCEPT !.agent_name = a, !.model = "sonnet",
                                  !.enable_mcp = mcp, !.step = "Unresolved"]
    /\ MetricsIdle
    /\ LaterIdle

NextSpawn ==
    \/ LoadDefinition
    \/ ParseTools
    \/ BuildProfile
    \/ PersistProfile
    \/ MakeClient

SpecGuard == InitGuard /\ [][NextGuard]_vars

SpecSpawn == InitSpawn /\ [][NextSpawn]_vars

\* Calls on one metrics file, one after the other.
InitMetrics ==
    /\ TimeoutIdle
    /\ MergeIdle
    /\ GuardIdle
    /\ SpawnIdle
    /\ metricsFile \in InitialFiles
    /\ metricsCall = NoCall
    /\ appended = <<>>
    /\ allSucceeded = TRUE
    /\ initialLog = StoredLog(metricsFile)
    /\ appendCalls = 0
    /\ LaterIdle

NextMetrics ==
    \/ LoadMetricsCall
    \/ AppendMetrics
    \/ RecordExecution

SpecMetrics == InitMetrics /\ [][NextMetrics]_vars

\* The parts modelled before this point, at rest.
EarlierIdle ==
    /\ TimeoutIdle
    /\ MergeIdle
    /\ GuardIdle
    /\ SpawnIdle
    /\ MetricsIdle
    /\ OverlapIdle
    /\ ClientsIdle

\* calculate_success_rate on every list of execution records.
InitRate ==
    /\ EarlierIdle
    /\ executions \in SeqsUpTo(ExecutionRecords, MaxExecutions)
    /\ rateCall = NoRateCall
    /\ ScalingIdle
    /\ SortIdle
    /\ PlanIdle

NextRate == CalculateSuccessRate

SpecRate == InitRate /\ [][NextRate]_vars

\* The two scaling rules applied again and again, from every level.
InitScaling ==
    /\ EarlierIdle
    /\ RateIdle
    /\ parallel \in Levels
    /\ load \in Loads
    /\ firstLoad = load
    /\ scaleCall = NoScaleCall
    /\ SortIdle
    /\ PlanIdle

NextScaling ==
    \/ RecommendParallelism
    \/ TrackerRecommendParallelism

SpecScaling == InitScaling /\ [][NextScaling]_vars

\* sort_by_priority on every list of issues.
InitSort ==
    /\ EarlierIdle
    /\ RateIdle
    /\ ScalingIdle
    /\ issues \in SeqsUpTo(Issues, MaxIssues)
    /\ sortCall = NoSortCall
    /\ PlanIdle

NextSort == SortByPriority

SpecSort == InitSort /\ [][NextSort]_vars

\* One query of the plan, and direct calls of the parser, in every
\* environment.
InitPlan ==
    /\ EarlierIdle
    /\ RateIdle
    /\ ScalingIdle
    /\ SortIdle
    /\ bvEnv \in BvEnvs
    /\ bvPlan = NoPlan
    /\ parseCall = NoParseCall

NextPlan ==
    \/ QueryBvRobotPlan
    \/ ParseBvPlanOutput

SpecPlan == InitPlan /\ [][NextPlan]_vars

\* Two append_metrics calls on one file, their loads and saves in any order.
InitOverlap ==
    /\ TimeoutIdle
    /\ MergeIdle
    /\ GuardIdle
    /\ SpawnIdle
    /\ MetricsIdle
    /\ sharedFile \in InitialFiles
    /\ sharedStart = sharedFile
    /\ writers \in [Writers -> {NoWriter(m) : m \in MetricsData \cup {UnserializableMetrics}}]
    /\ saveOrder = <<>>
    /\ ClientsIdle
    /\ RateIdle
    /\ ScalingIdle
    /\ SortIdle
    /\ PlanIdle

NextOverlap ==
    \/ \E w \in Writers : OverlapLoad(w)
    \/ \E w \in Writers : OverlapSave(w)

SpecOverlap == InitOverlap /\ [][NextOverlap]_vars

\* Two create_subagent_client calls, their steps in any order.
InitClients ==
    /\ TimeoutIdle
    /\ MergeIdle
    /\ GuardIdle
    /\ SpawnIdle
    /\ MetricsIdle
    /\ OverlapIdle
    /\ projectSettings = [d \in ProjectDirs |-> NoSettingsFile]
    /\ clients \in [SpawnCalls ->
                       {NoClientCall(d, tools, mcp) :
                           d \in ProjectDirs, tools \in SpawnToolLists, mcp \in BOOLEAN}]
    /\ RateIdle
    /\ ScalingIdle
    /\ SortIdle
    /\ PlanIdle

NextClients ==
    \/ \E s \in SpawnCalls : SpawnWriteSettings(s)
    \/ \E s \in SpawnCalls : SpawnMakeClient(s)

SpecClients == InitClients /\ [][NextClients]_vars

\* ------------------------------------------------- notions used by the claims
Done(c) == pc[c] = "done"
InFlight(c) == pc[c] \in {"work", "cleanup"}
\* The call's own deadline fired while it was awaiting the work.
Expired(c) == tstate[c] \in {"expiring", "expired"}
\* The work lets a CancelledError thrown into it propagate.
HonoursCancellation(c) == cfg[c].onCancel \in {"ack", "slowack"}
CleanupHonoursCancellation(c) == cfg[c].cleanup \in {"none", "returns", "raises", "slow"}
\* The call reports a timeout, in the way raise_on_timeout selects.
ReportsTimeout(c) ==
    IF cfg[c].raise_on_timeout
    THEN outcome[c].how = "raise" /\ outcome[c].error = "KernelTimeoutError"
    ELSE /\ outcome[c].how = "return_result"
         /\ outcome[c].timed_out
         /\ ~outcome[c].success
         /\ outcome[c].error = "KernelTimeoutError"
ReraisesCancellation(c) == outcome[c].how = "raise" /\ outcome[c].error = "CancelledError"
\* The exception with which the work ended by itself.
OwnFailure(c) == IF work[c] = "raised" THEN "ValueError" ELSE "asyncio.TimeoutError"
FailedByItself(c) ==
    /\ work[c] \in {"raised", "raisedTimeout"}
    /\ signals[c] = 0
    /\ ~Expired(c)
    /\ extCancels[c] = 0
CallState(c) ==
    <<cfg[c], pc[c], work[c], mustCancel[c], cancelling[c], tstate[c], gstate[c], gEntry[c],
      deadline[c], graceDeadline[c], cleanupSt[c], cleanupCalls[c], extCancels[c], extPhase[c],
      signals[c], graceLog[c], outcome[c]>>

\* ------------------------------------------------- claims

\* C1: when the deadline of a run_with_timeout call expires on work that gives
\* way to the cancellation, and a cleanup callback is supplied, and the
\* caller's context does not cancel the call, then the callback has been
\* invoked once and the call reports the timeout (TimeoutResult with
\* timed_out, not success, the kernel's TimeoutError; or that error raised),
\* however the cleanup ended: returned, raised, or cut off at the grace period.
C1_CleanupNeverChangesTimeout ==
    \A c \in Calls :
        (/\ Done(c)
         /\ cfg[c].kind = "run_with_timeout"
         /\ cfg[c].cleanup # "none"
         /\ Expired(c)
         /\ HonoursCancellation(c)
         /\ extCancels[c] = 0)
        => cleanupCalls[c] = 1 /\ ReportsTimeout(c)

C1_Witness ==
    \E c \in Calls :
        /\ Done(c)
        /\ Expired(c)
        /\ cleanupSt[c] = "raised"
        /\ extCancels[c] = 0
        /\ outcome[c] = TimeoutResult(FALSE, "none", TRUE, "KernelTimeoutError")

\* C2: a call that has produced its outcome has no cleanup callback still
\* running; when the outcome is the timeout, the cleanup it started has either
\* ended by itself or was cut off when its grace period expired.
C2_OutcomeAfterCleanup ==
    \A c \in Calls :
        Done(c) =>
            /\ cleanupSt[c] # "running"
            /\ (ReportsTimeout(c) /\ cleanupCalls[c] > 0) =>
                  \/ cleanupSt[c] \in {"returned", "raised"}
                  \/ cleanupSt[c] = "cancelled" /\ gstate[c] = "expired"

C2_Witness ==
    \E c \in Calls :
        /\ Done(c)
        /\ ReportsTimeout(c)
        /\ cleanupSt[c] = "cancelled"
        /\ gstate[c] = "expired"
        /\ now = graceDeadline[c]

\* C3: a run_with_timeout call whose caller cancels it before the deadline
\* fires, on work that lets the cancellation through, ends by raising
\* CancelledError for both values of raise_on_timeout: it returns no
\* TimeoutResult and raises no kernel TimeoutError, also when the deadline
\* fires while the work is still unwinding.
C3_ExternalCancelPropagates ==
    \A c \in Calls :
        (/\ Done(c)
         /\ cfg[c].kind = "run_with_timeout"
         /\ "before_deadline" \in extPhase[c]
         /\ HonoursCancellation(c))
        => ReraisesCancellation(c)

C3_Witness ==
    \E c \in Calls :
        /\ Done(c)
        /\ cfg[c].kind = "run_with_timeout"
        /\ ~cfg[c].raise_on_timeout
        /\ "before_deadline" \in extPhase[c]
        /\ Expired(c)
        /\ ReraisesCancellation(c)

\* C4 (as claimed): run_with_timeout_and_cancel always ends by returning a
\* TimeoutResult, which is a success without error when the task finished in
\* time, and otherwise carries the cause in error: the kernel's TimeoutError
\* when the deadline expired, the task's exception when the task raised, a
\* CancelledError when the task or the monitoring call was cancelled.
C4_AlwaysResultWithCause ==
    \A c \in Calls :
        (Done(c) /\ cfg[c].kind = "run_with_timeout_and_cancel") =>
            /\ outcome[c].how = "return_result"
            /\ (work[c] = "returned" /\ signals[c] = 0 /\ ~Expired(c) /\ extCancels[c] = 0)
                  => outcome[c] = TimeoutResult(TRUE, "v", FALSE, "none")
            /\ (Expired(c) /\ HonoursCancellation(c) /\ extCancels[c] = 0)
                  => outcome[c] = TimeoutResult(FALSE, "none", TRUE, "KernelTimeoutError")
            /\ FailedByItself(c) => outcome[c].error = OwnFailure(c)
            /\ (~Expired(c) /\ HonoursCancellation(c)
                  /\ (extCancels[c] > 0 \/ work[c] = "cancelled"))
                  => outcome[c].error = "CancelledError"

\* C5 (as claimed): a bounded-execution call of either kind that the caller's
\* context cancelled while it was in flight ends by raising CancelledError
\* (work and cleanup letting the cancellation through).
C5_CancellationAlwaysReraised ==
    \A c \in Calls :
        (/\ Done(c)
         /\ extCancels[c] > 0
         /\ HonoursCancellation(c)
         /\ CleanupHonoursCancellation(c))
        => ReraisesCancellation(c)

\* C5 (amended): run_with_timeout re-raises the cancellation of the caller's
\* context at either await (the work, the cleanup callback) when the awaited
\* code lets it through; run_with_timeout_and_cancel does not re-raise it: the
\* call returns TimeoutResult(success=False, timed_out=False,
\* error=CancelledError).
C5_ReraisedByRunWithTimeoutOnly ==
    \A c \in Calls :
        (/\ Done(c)
         /\ extCancels[c] > 0
         /\ HonoursCancellation(c)
         /\ CleanupHonoursCancellation(c))
        => IF cfg[c].kind = "run_with_timeout"
           THEN ReraisesCancellation(c)
           ELSE outcome[c] = TimeoutResult(FALSE, "none", FALSE, "CancelledError")

C5_Witness ==
    \E c \in Calls :
        /\ Done(c)
        /\ cfg[c].kind = "run_with_timeout"
        /\ "cleanup" \in extPhase[c]
        /\ cleanupSt[c] = "cancelled"
        /\ ReraisesCancellation(c)

\* C6 (as claimed): the outcome identifies its trigger: a timeout is reported
\* only when the call's own deadline expired, and a failure raised by the work
\* itself, whatever its type, is reported as that exception and not as a
\* timeout.
C6_OutcomeIdentifiesTrigger ==
    \A c \in Calls :
        Done(c) =>
            /\ ReportsTimeout(c) => Expired(c)
            /\ FailedByItself(c) => /\ outcome[c].error = OwnFailure(c)
                                    /\ ~outcome[c].timed_out

\* C7 (as claimed): a call in flight has not outlived its deadline by more
\* than the cleanup grace period.
C7_BoundedLatency ==
    \A c \in Calls :
        InFlight(c) => now <= deadline[c] + CLEANUP_GRACE_PERIOD_SECONDS

\* C8: calls in flight together are independent: the step in which one
\* call's deadline fires changes nothing of any other call; the work of a
\* call is cancelled, and its cleanup callback run, only after its own
\* deadline fired; and each outcome is the one its own work and deadline give.
C8_CallsIndependent ==
    /\ [][\A c \in Calls :
            (tstate[c] = "entered" /\ tstate'[c] = "expiring")
            => \A d \in Calls \ {c} : CallState(d)' = CallState(d)]_vars
    /\ [](\A c \in Calls :
            /\ signals[c] > 0 => Expired(c)
            /\ cleanupCalls[c] > 0 => tstate[c] = "expired"
            /\ Done(c) =>
                 IF Expired(c) THEN ReportsTimeout(c)
                 ELSE CASE cfg[c].finish = "value" ->
                             outcome[c] = TimeoutResult(TRUE, "v", FALSE, "none")
                        [] OTHER ->
                             outcome[c] = TimeoutResult(FALSE, "none", FALSE, "ValueError"))

C8_Witness ==
    \E c \in Calls : \E d \in Calls \ {c} :
        /\ Done(c)
        /\ ReportsTimeout(c)
        /\ cleanupCalls[c] = 1
        /\ deadline[c] < deadline[d]
        /\ Done(d)
        /\ outcome[d] = TimeoutResult(TRUE, "v", FALSE, "none")
        /\ cleanupCalls[d] = 0

\* ------------------------------------------------- claims: conflict handler
ConflictWord == <<"c", "o", "n", "f", "l", "i", "c", "t">>
ConflictWordUpper == <<"C", "O", "N", "F", "L", "I", "C", "T">>

\* Text t holds the word "conflict", each letter in either case.
MentionsConflict(t) ==
    \E i \in 1..(Len(t) - Len(ConflictWord) + 1) :
        \A k \in 1..Len(ConflictWord) : t[i + k - 1] \in {ConflictWord[k], ConflictWordUpper[k]}

Blank(t) == \A i \in 1..Len(t) : t[i] \in Whitespace

\* x is text t without the whitespace at its two ends.
IsTrimmed(x, t) ==
    IF Blank(t) THEN x = <<>>
    ELSE \E a \in 1..Len(t), b \in 1..Len(t) :
            /\ a <= b
            /\ x = SubSeq(t, a, b)
            /\ t[a] \notin Whitespace
            /\ t[b] \notin Whitespace
            /\ \A i \in (1..(a - 1)) \cup ((b + 1)..Len(t)) : t[i] \in Whitespace

\* The first and the last character, other than whitespace, of each line of t.
LineFirsts(t) ==
    {i \in 1..Len(t) :
        /\ t[i] \notin Whitespace
        /\ \A j \in 1..(i - 1) : (\A k \in j..(i - 1) : t[k] # "\n") => t[j] \in Whitespace}
LineLasts(t) ==
    {i \in 1..Len(t) :
        /\ t[i] \notin Whitespace
        /\ \A j \in (i + 1)..Len(t) : (\A k \in (i + 1)..j : t[k] # "\n") => t[j] \in Whitespace}

\* files lists, in order, each non-blank line of t without the whitespace at
\* its ends.
ListsNonBlankLines(files, t) ==
    /\ Len(files) = Cardinality(LineFirsts(t))
    /\ \A n \in 1..Len(files) :
          \E a \in LineFirsts(t), b \in LineLasts(t) :
              /\ Cardinality({x \in LineFirsts(t) : x < a}) = n - 1
              /\ Cardinality({x \in LineLasts(t) : x < b}) = n - 1
              /\ files[n] = SubSeq(t, a, b)

\* C9 (as claimed): attempt_automatic_merge never raises and its result has
\* one of the three statuses, also when the git executable is missing or the
\* subprocess fails, which is reported as ERROR.
C9_MergeNeverRaises ==
    mpc = "done" =>
        /\ mergeResult.raised = "none"
        /\ mergeResult.status \in {"MERGED", "CONFLICT", "ERROR"}
        /\ mergeRun.ended # "completed" => mergeResult.status = "ERROR"

\* C10: exit code 0 gives MERGED whatever the output says; a non-zero exit
\* whose stdout or stderr holds "conflict" in any letter case gives CONFLICT
\* with conflicted_files the list detect_merge_conflicts returns: one trimmed
\* path per non-blank line of the diff output, in order (empty when the diff
\* failed); every other non-zero exit gives ERROR with the error text, stderr
\* or else stdout, trimmed.
C10_MergeClassification ==
    (mpc = "done" /\ mergeRun.ended = "completed") =>
        /\ mergeResult.raised = "none"
        /\ CASE mergeRun.returncode = 0 ->
                  mergeResult.status = "MERGED"
             [] MentionsConflict(mergeRun.stdout) \/ MentionsConflict(mergeRun.stderr) ->
                  /\ mergeResult.status = "CONFLICT"
                  /\ IF diffRun.ended = "completed" /\ diffRun.returncode = 0
                     THEN ListsNonBlankLines(mergeResult.conflicted_files, diffRun.stdout)
                     ELSE mergeResult.conflicted_files = <<>>
             [] OTHER ->
                  /\ mergeResult.status = "ERROR"
                  /\ mergeResult.conflicted_files = "None"
                  /\ IsTrimmed(mergeResult.error_message,
                               IF Blank(mergeRun.stderr) THEN mergeRun.stdout
                               ELSE mergeRun.stderr)

C10_Witness ==
    /\ mpc = "done"
    /\ mergeRun.returncode = 1
    /\ mergeRun.stderr = ConflictWordUpper
    /\ diffRun.stdout = <<"a", "\n", "b">>
    /\ mergeResult = MergeResult("CONFLICT", ConflictWordUpper, << <<"a">>, <<"b">> >>)

C12_DetectNeverRaises ==
    detectCalls > 0 =>
        /\ detectResult.raised = "none"
        /\ (detectRun.ended # "completed" \/ detectRun.returncode # 0)
              => detectResult.files = <<>>
        /\ (detectRun.ended = "completed" /\ detectRun.returncode = 0
              /\ detectRun.stdout = <<>>) => detectResult.files = <<>>

\* ------------------------------------------------- claims: working directory guard

\* C13: entering a WorkingDirectoryGuard while the current directory differs
\* from the expected one raises RuntimeError, the guarded body is not entered
\* (no scope is opened, so no statement of it runs), and the current directory
\* is the one it was before the attempt.
C13_MismatchFailsFast ==
    (lastOp.op = "enter" /\ lastOp.before # gExpected[lastOp.guard]) =>
        /\ lastOp.raised = "RuntimeError"
        /\ raising = "RuntimeError"
        /\ lastOp.guard \notin ActiveGuards
        /\ cwd = lastOp.before

C13_Witness ==
    /\ lastOp.op = "enter"
    /\ lastOp.guard = "g2"
    /\ gExpected["g2"] = "/p"
    /\ lastOp.before = "/q"
    /\ raising = "RuntimeError"
    /\ Len(scopes) = 1
    /\ scopes[1].guard = "g1"
    /\ cwd = "/q"

StepOrder ==
    <<"DefinitionLoaded", "ToolsParsed", "ProfileBuilt", "ProfilePersisted", "ClientReady">>

SpawnFinished == spawn.step \in {"Raised", "ClientReady"}

\* Some definition file the search can use exists.
DefinitionAvailable ==
    \E root \in {"project", "master"}, name \in {spawn.agent_name, "implementer"} :
        AgentPath(root, name) \in agentFiles

\* C15: create_subagent_client reaches its steps in the order definition
\* loaded, tools parsed, profile built, profile persisted, client ready; a
\* client is returned only after all five, and a call that fails (no
\* definition found, profile not writable, credential missing) raises and
\* returns no client, made or half-made.
C15_StepsInOrderOrNoClient ==
    /\ Len(spawn.trace) <= Len(StepOrder)
    /\ spawn.trace = SubSeq(StepOrder, 1, Len(spawn.trace))
    /\ spawn.client.made => spawn.returned
    /\ spawn.returned => spawn.trace = StepOrder /\ spawn.raised = "none"
    /\ spawn.step = "Raised" =>
          /\ spawn.raised # "none"
          /\ ~spawn.returned
          /\ ~spawn.client.made
    /\ SpawnFinished =>
          /\ ~DefinitionAvailable => spawn.raised = "FileNotFoundError"
          /\ (DefinitionAvailable /\ ~diskWritable) => spawn.raised = "OSError"
          /\ (DefinitionAvailable /\ diskWritable /\ ~credential)
                => spawn.raised = "ValueError"
          /\ (DefinitionAvailable /\ diskWritable /\ credential) => spawn.returned

C15_Witness ==
    /\ spawn.step = "Raised"
    /\ spawn.raised = "ValueError"
    /\ spawn.trace = SubSeq(StepOrder, 1, 4)
    /\ settingsFile.written
    /\ ~spawn.client.made

\* The allow list that the profile built by the call holds.
AllowList == spawn.security_settings.permissions.allow

ProfileIsBuilt ==
    spawn.step \in {"ProfileBuilt", "ProfilePersisted", "ClientReady"}
    \/ (spawn.step = "Raised" /\ spawn.raised \in {"OSError", "ValueError"})

\* The grant the claim gives for a tool name.
GrantFor(tool) ==
    CASE tool \in {"Read", "Write", "Edit", "Glob", "Grep"} -> tool \o "(./**)"
      [] tool = "Bash" -> "Bash(*)"
      [] OTHER -> tool

\* C16: the profile built from a tool list holds, in input order, one grant
\* per tool: '<Tool>(./**)' for Read, Write, Edit, Glob and Grep, 'Bash(*)'
\* for Bash, the name itself for any other tool; the browser tools follow them
\* exactly when they are enabled; the sandbox is enabled; and no grant is held
\* for a tool that is neither in the list nor an enabled browser tool.
C16_ProfileFromTools ==
    ProfileIsBuilt =>
        LET tools == spawn.allowed_tools
            n == Len(tools)
        IN  /\ spawn.security_settings.sandbox.enabled
            /\ Len(AllowList) = n + (IF spawn.enable_mcp THEN Len(PUPPETEER_TOOLS) ELSE 0)
            /\ \A i \in 1..n : AllowList[i] = GrantFor(tools[i])
            /\ \A i \in (n + 1)..Len(AllowList) :
                   spawn.enable_mcp /\ AllowList[i] = PUPPETEER_TOOLS[i - n]
            /\ \A i \in 1..Len(AllowList) :
                   \/ \E j \in 1..n : AllowList[i] = GrantFor(tools[j])
                   \/ spawn.enable_mcp
                        /\ \E j \in 1..Len(PUPPETEER_TOOLS) : AllowList[i] = PUPPETEER_TOOLS[j]

C16_Witness ==
    /\ spawn.step = "ProfileBuilt"
    /\ spawn.enable_mcp
    /\ spawn.allowed_tools = <<"Grep", "WebFetch">>
    /\ AllowList = <<"Grep(./**)", "WebFetch">> \o PUPPETEER_TOOLS

\* The locations in the order the claim gives them.
ClaimedSearchOrder ==
    << AgentPath("project", spawn.agent_name), AgentPath("master", spawn.agent_name),
       AgentPath("project", "implementer"), AgentPath("master", "implementer") >>

\* C17: load_agent_file returns the path and the contents of the first of
\* project-local definition, shared definition, project-local 'implementer',
\* shared 'implementer' that exists, a later one only when every earlier one
\* is missing; when none exists it raises a not-found error that names the
\* requested agent and the four searched locations.
C17_FirstExistingWins ==
    spawn.step \notin {"Absent", "Unresolved"} =>
        IF DefinitionAvailable
        THEN /\ spawn.loaded.found
             /\ \E i \in 1..Len(ClaimedSearchOrder) :
                   /\ ClaimedSearchOrder[i] \in agentFiles
                   /\ \A j \in 1..(i - 1) : ClaimedSearchOrder[j] \notin agentFiles
                   /\ spawn.loaded.path = ClaimedSearchOrder[i]
                   /\ spawn.loaded.prompt = FileContent(ClaimedSearchOrder[i]).prompt
                   /\ spawn.loaded.frontmatter = FileContent(ClaimedSearchOrder[i]).frontmatter
        ELSE /\ spawn.step = "Raised"
             /\ spawn.raised = "FileNotFoundError"
             /\ spawn.loaded.agent = spawn.agent_name
             /\ spawn.loaded.searched = ClaimedSearchOrder

C17_Witness ==
    /\ spawn.step = "DefinitionLoaded"
    /\ spawn.agent_name = "atom-writer"
    /\ agentFiles = {AgentPath("master", "atom-writer"), AgentPath("project", "implementer"),
                     AgentPath("master", "implementer")}
    /\ spawn.loaded.path = AgentPath("master", "atom-writer")

\* The profile written for the client grants the shell.
ShellGranted ==
    \E i \in 1..Len(settingsFile.settings.permissions.allow) :
        settingsFile.settings.permissions.allow[i] = "Bash(*)"

AppendOps == {"append_metrics", "record_execution"}

MissingOrCorrupted(file) ==
    file.kind \in {"missing", "not_json", "not_list", "not_utf8"}

\* C19: the metrics log is append-only. As long as every append call on the
\* file has returned True, the log that loads from the file is the log that
\* loaded before the first call followed by all the appended records in call
\* order; and every append that returned True left the log as it loaded before
\* the call with exactly the one new record added at the end.
C19_AppendOnly ==
    /\ allSucceeded => StoredLog(metricsFile) = initialLog \o appended
    /\ (metricsCall.op \in AppendOps /\ metricsCall.returned = "True") =>
          StoredLog(metricsFile) =
              Append(StoredLog(metricsCall.before), metricsCall.metrics)

C19_Witness ==
    /\ appendCalls = 2
    /\ allSucceeded
    /\ metricsCall.op = "record_execution"
    /\ metricsCall.returned = "True"
    /\ Len(initialLog) = 1
    /\ Len(appended) = 2
    /\ appended[1] # appended[2]
    /\ initialLog[1] # appended[1]
    /\ StoredLog(metricsFile) = <<initialLog[1], appended[1], appended[2]>>

\* C20: load_metrics never raises for a missing or corrupted log file and
\* returns None for it; append_metrics on such a file, when the write itself
\* goes through, returns True and the log then loads as exactly the one new
\* record.
C20_MissingOrCorruptedSelfHeals ==
    /\ (metricsCall.op = "load_metrics" /\ MissingOrCorrupted(metricsCall.before)) =>
          /\ metricsCall.raised = "none"
          /\ metricsCall.loaded = LoadedNone
    /\ (/\ metricsCall.op \in AppendOps
        /\ MissingOrCorrupted(metricsCall.before)
        /\ metricsCall.env = "ok"
        /\ Serializable(metricsCall.metrics)) =>
          /\ metricsCall.raised = "none"
          /\ metricsCall.returned = "True"
          /\ StoredLog(metricsFile) = <<metricsCall.metrics>>
          /\ LoadMetrics(metricsFile).raised = "none"

\* ------------------------------------------------- claims: scaling and sorting
\* The rate is a number and is at least / less than / more than num tenths.
TenthsAtLeast(rate, num) == ~rate.nan /\ 10 * rate.n >= num * rate.d
TenthsBelow(rate, num) == ~rate.nan /\ 10 * rate.n < num * rate.d
TenthsAbove(rate, num) == ~rate.nan /\ 10 * rate.n > num * rate.d

Clamped(lo, hi, x) == IF x < lo THEN lo ELSE IF x > hi THEN hi ELSE x

\* C21: parallel_atoms.recommend_parallelism returns current_parallel + 1 when
\* the success rate is at least 0.90, current_parallel - 1 when it is below
\* 0.70 and current_parallel otherwise, each clamped to [1, 4]; the result is
\* in [1, 4] for every input.
C21_AtomsRecommendation ==
    scaleCall.fn = "parallel_atoms.recommend_parallelism" =>
        /\ TenthsAtLeast(scaleCall.rate, 9) =>
              scaleCall.result = Clamped(1, 4, scaleCall.level + 1)
        /\ TenthsBelow(scaleCall.rate, 7) =>
              scaleCall.result = Clamped(1, 4, scaleCall.level - 1)
        /\ (~TenthsAtLeast(scaleCall.rate, 9) /\ ~TenthsBelow(scaleCall.rate, 7)) =>
              scaleCall.result = Clamped(1, 4, scaleCall.level)
        /\ scaleCall.result \in 1 .. 4
        /\ parallel = scaleCall.result

C21_Witness ==
    /\ scaleCall.fn = "parallel_atoms.recommend_parallelism"
    /\ scaleCall.rate = Rate(90, 100)
    /\ scaleCall.level = 3
    /\ scaleCall.result = 4
    /\ parallel = 4

\* The success rate after the tracker's clamp to [0, 1], for a rate that is a
\* number.
ClaimedClamp(rate) ==
    IF rate.n < 0 THEN Rate(0, 1)
    ELSE IF rate.n > rate.d THEN Rate(1, 1)
    ELSE rate

\* C22: improvement_tracker.recommend_parallelism clamps the rate to [0, 1],
\* raises the load by 1 only when the rate is above 0.80 and the load is below
\* 3, lowers it by 1 when the rate is below 0.50 and keeps it otherwise; the
\* result is in [1, 5], it exceeds the load only if the load was below 3, and
\* applied again and again from a load of at most 3 it never exceeds 3.
C22_TrackerRecommendation ==
    /\ scaleCall.fn = "improvement_tracker.recommend_parallelism" =>
          /\ ~scaleCall.rate.nan =>
                LET rate == ClaimedClamp(scaleCall.rate)
                    wanted == IF TenthsAbove(rate, 8) /\ scaleCall.level < 3
                              THEN scaleCall.level + 1
                              ELSE IF TenthsBelow(rate, 5)
                              THEN scaleCall.level - 1
                              ELSE scaleCall.level
                IN  scaleCall.result = Clamped(1, 5, wanted)
          /\ scaleCall.result \in 1 .. 5
          /\ scaleCall.result > scaleCall.level => scaleCall.level < 3
          /\ load = scaleCall.result
    /\ firstLoad <= 3 => load <= 3

C22_Witness ==
    /\ scaleCall.fn = "improvement_tracker.recommend_parallelism"
    /\ scaleCall.rate = Rate(150, 100)
    /\ firstLoad = 1
    /\ scaleCall.level = 3
    /\ scaleCall.result = 3
    /\ load = 3

\* The last `window` records of a list.
LastRecords(list, window) ==
    LET n == Len(list)
        kept == IF window > n THEN n ELSE window
    IN  SubSeq(list, n - kept + 1, n)

FlaggedSuccesses(list) ==
    Cardinality({i \in 1 .. Len(list) : list[i].has_success /\ list[i].success})

\* C23: calculate_success_rate returns a value in [0, 1] equal to the number
\* of records with a true success flag among the last `window` records divided
\* by the number of those records, records without the flag counting as
\* failures; 0.0 when there are no such records; records before the last
\* `window` never affect the result.
C23_RateOverLastWindow ==
    rateCall.fn = "calculate_success_rate" =>
        LET last == LastRecords(executions, rateCall.window)
            rate == rateCall.rate
        IN  /\ ~rate.nan
            /\ rate.d > 0
            /\ 0 <= rate.n
            /\ rate.n <= rate.d
            /\ IF last = <<>>
               THEN rate.n = 0
               ELSE rate.n * Len(last) = FlaggedSuccesses(last) * rate.d

C26_CleanupOnlyOnExpiry ==
    \A c \in Calls :
        cfg[c].kind = "run_with_timeout" =>
            /\ cleanupCalls[c] <= 1
            /\ cleanupCalls[c] >= 1 => Expired(c)

Monitored(c) == cfg[c].kind = "run_with_timeout_and_cancel"
ReturnsTimedOut(c) ==
    /\ outcome[c].how = "return_result"
    /\ outcome[c].timed_out
    /\ ~outcome[c].success
\* The step in which the deadline of call c fires.
DeadlineFires(c) == tstate[c] = "entered" /\ tstate'[c] = "expiring"

\* C27: when the deadline of run_with_timeout_and_cancel expires while the
\* task is running, a CancelledError is thrown into the task before any result
\* is returned; every call whose deadline expired and that returns the
\* timed-out TimeoutResult has cancelled the task before returning, and a
\* task that lets the cancellation through is then in the cancelled state; a
\* task that ended by itself before the deadline fired is never cancelled.
C27_CancelledBeforeTimeoutResult ==
    /\ [](\A c \in Calls :
            Monitored(c) =>
                /\ (Done(c) /\ Expired(c) /\ ReturnsTimedOut(c)) =>
                      /\ graceLog[c] # "none"
                      /\ (signals[c] >= 1 /\ HonoursCancellation(c)) =>
                            work[c] = "cancelled"
                /\ (HonoursCancellation(c) /\ work[c] \in {"returned", "raised", "raisedTimeout"}) =>
                      signals[c] = 0
                /\ (~Expired(c) /\ extCancels[c] = 0) => signals[c] = 0)
    /\ [][\A c \in Calls :
            (Monitored(c) /\ DeadlineFires(c) /\ work[c] = "running") =>
                /\ signals'[c] = signals[c] + 1
                /\ outcome'[c] = NoOutcome
                /\ HonoursCancellation(c) => work'[c] \in {"cancelled", "unwinding"}]_vars

C27_Witness ==
    \E c \in Calls :
        /\ Monitored(c)
        /\ cfg[c].onCancel = "slowack"
        /\ cfg[c].finish = "never"
        /\ Done(c)
        /\ Expired(c)
        /\ ReturnsTimedOut(c)
        /\ signals[c] = 1
        /\ work[c] = "cancelled"
        /\ graceLog[c] = "cancelled successfully"

\* ------------------------------------------------- claims: plan query
\* A line of the form 'Phase N: <title>', blanks around it aside: the word in
\* any spelling, blanks, a number, a colon.
ClaimedHeader(line) ==
    LET t == Strip(line) IN
    \E a, b \in 1 .. Len(t) :
        /\ t[1] \in PhaseWords
        /\ 2 <= a
        /\ a < b
        /\ \A k \in 2 .. a : t[k] \in Whitespace
        /\ \A k \in (a + 1) .. (b - 1) : t[k] \in Digits
        /\ a + 1 <= b - 1
        /\ t[b] = ":"

\* The position of the dash of a task line: blanks only before it, a blank
\* behind it, and text behind that. 0 when the line is no task line.
ClaimedDash(line) ==
    LET dashes == {i \in 1 .. Len(line) :
                      /\ line[i] = "-"
                      /\ \A k \in 1 .. (i - 1) : line[k] \in Whitespace
                      /\ i + 2 <= Len(line)
                      /\ line[i + 1] \in Whitespace}
    IN  IF dashes = {} THEN 0 ELSE CHOOSE i \in dashes : TRUE

ClaimedTaskText(line) == Strip(SubSeq(line, ClaimedDash(line) + 2, Len(line)))

\* The phases the claim describes for a text: one per header line, each with
\* the task lines up to the next header.
ClaimedPhases(text) ==
    LET lines == SplitLines(text)
        headers == {i \in 1 .. Len(lines) : ClaimedHeader(lines[i])}
        HeaderNo(k) == CHOOSE i \in headers :
                           Cardinality({j \in headers : j <= i}) = k
        Owner(j) == Cardinality({i \in headers : i < j})
        TasksOf(k) ==
            LET mine == {j \in 1 .. Len(lines) :
                            /\ j \notin headers
                            /\ Owner(j) = k
                            /\ ClaimedDash(lines[j]) > 0}
                TaskNo(m) == CHOOSE j \in mine :
                                 Cardinality({i \in mine : i <= j}) = m
            IN  [m \in 1 .. Cardinality(mine) |-> ClaimedTaskText(lines[TaskNo(m)])]
    IN  [k \in 1 .. Cardinality(headers) |->
            [name |-> Strip(lines[HeaderNo(k)]), tasks |-> TasksOf(k)]]

SaysUnavailable(message) ==
    message.kind \in {"BV CLI unavailable: not found in PATH",
                      "BV CLI unavailable: executable not found"}

\* C25: query_bv_robot_plan never raises and classifies every invocation: an
\* executable that cannot be resolved gives success=False with an
\* 'unavailable' message, a non-zero exit success=False with the exit code in
\* the message, a timeout success=False with a 'timed out' message, any other
\* failure of the invocation success=False; exit code 0 gives success=True
\* with the parsed phases and no message, also without phases. Whenever
\* success is False the phases are empty and the message is set.
C25_EveryInvocationClassified ==
    bvPlan.called =>
        /\ bvPlan.raised = "none"
        /\ ~bvEnv.resolvable =>
              ~bvPlan.success /\ SaysUnavailable(bvPlan.error_message)
        /\ (bvEnv.resolvable /\ bvEnv.ended = "exit" /\ bvEnv.returncode # 0) =>
              /\ ~bvPlan.success
              /\ bvPlan.error_message.kind = "BV CLI failed (exit"
              /\ bvPlan.error_message.exit = bvEnv.returncode
        /\ (bvEnv.resolvable /\ bvEnv.ended = "TimeoutExpired") =>
              ~bvPlan.success /\ bvPlan.error_message.kind = "BV CLI timed out after"
        /\ (bvEnv.resolvable /\ bvEnv.ended # "exit") => ~bvPlan.success
        /\ (bvEnv.resolvable /\ bvEnv.ended = "exit" /\ bvEnv.returncode = 0) =>
              /\ bvPlan.success
              /\ bvPlan.phases = ClaimedPhases(bvEnv.stdout)
              /\ bvPlan.error_message = NoMessage
        /\ ~bvPlan.success =>
              bvPlan.phases = <<>> /\ bvPlan.error_message # NoMessage

C25_Witness ==
    /\ bvPlan.called
    /\ bvEnv.resolvable
    /\ bvEnv.ended = "exit"
    /\ bvEnv.returncode = 0
    /\ bvEnv.stdout = <<"x", " ", "-", " ", "x">>
    /\ bvPlan.success
    /\ bvPlan.phases = <<>>
    /\ bvPlan.error_message = NoMessage

\* C30: parse_bv_plan_output never raises and returns one phase per line
\* matching 'Phase N: <title>' in any letter case, in input order; every task
\* line (optional blanks, a dash, a blank, text) is attached, trimmed and in
\* input order, to the most recent header before it; task lines before the
\* first header and all other lines are ignored; None or blank input gives an
\* empty list.
C30_PhasesAndTasks ==
    parseCall.called =>
        IF parseCall.input.is_none \/ \A i \in 1 .. Len(parseCall.input.text) :
                                         parseCall.input.text[i] \in Whitespace
        THEN parseCall.phases = <<>>
        ELSE parseCall.phases = ClaimedPhases(parseCall.input.text)

C30_Witness ==
    /\ parseCall.called
    /\ parseCall.input =
          SomeText(<<"-", " ", "x", "\n",
                     "\t", "Phase", " ", "2", ":", "x", " ", "\n",
                     " ", "-", " ", " ", "x", " ", "x", " ">>)
    /\ parseCall.phases =
          << [name |-> <<"Phase", " ", "2", ":", "x">>,
              tasks |-> << <<"x", " ", "x">> >>] >>

\* ------------------------------------------------- C28
\* Both calls loaded the log before either reached save_metrics, and both
\* have returned.
BothLoadedBeforeEitherSaved ==
    \A w \in Writers : writers[w].at = "returned" /\ writers[w].overlapped

BothReturnedTrue == \A w \in Writers : writers[w].returned = "True"

SavedLast == saveOrder[Len(saveOrder)]
SavedFirst == saveOrder[1]

SettingsAt(path) == projectSettings[path[1]]

\* C29: the settings file every returned client points to holds the allow
\* list built from that client's own tools, whatever other spawns did.
C29_OwnAllowListInSettings ==
    \A s \in SpawnCalls :
        clients[s].at = "returned" =>
            /\ SettingsAt(clients[s].client.settings).written
            /\ SettingsAt(clients[s].client.settings).settings.permissions.allow =
                  BuildSecuritySettings(clients[s].client.allowed_tools,
                                        clients[s].enable_mcp).permissions.allow

====
